---- MODULE Spec2Model ----
(***************************************************************************)
(* A model of the JSON toolkit of smart-tools (json-tools/src/utils/       *)
(* jsonProcessor.ts): parsing and validation, formatting, structural diff, *)
(* path queries, schema validation and XML rendering.                      *)
(*                                                                         *)
(* A text (a JavaScript string) is a sequence of one-character strings, so *)
(* that substring searches, splits and regular-expression matches are      *)
(* computed character by character, as the code computes them.             *)
(***************************************************************************)
EXTENDS Integers, Sequences, FiniteSets, TLC

VARIABLES jsonString, json2, query, options, op, result,
          input, compareInput, output, error, isProcessing, stats, aiSuggestion,
          isAiFixing, activeTool, jsonPathQuery, queryResults, aiFix, aiSuggest

\* the state of the App component: its useState values (options is shared
\* with the calls of the processor) and the two AIService calls in flight
appVars == <<input, compareInput, output, error, isProcessing, stats, aiSuggestion,
             isAiFixing, activeTool, jsonPathQuery, queryResults, aiFix, aiSuggest>>

vars == <<jsonString, json2, query, options, op, result, appVars>>

(***************************************************************************)
(* Texts                                                                   *)
(***************************************************************************)
NL == "\n"
QUOTE == "\""
BACKSLASH == "\\"

Digits == <<"0","1","2","3","4","5","6","7","8","9">>

DigitSet == {Digits[i] : i \in 1..10}

\* UTF-16 code units of the characters of the texts: the order that
\* Array.prototype.sort() compares strings by.
CharCode ==
  (NL :> 10) @@ (" " :> 32) @@ (QUOTE :> 34) @@ ("$" :> 36) @@ ("&" :> 38)
  @@ ("'" :> 39) @@ ("*" :> 42) @@ ("+" :> 43) @@ ("," :> 44) @@ ("-" :> 45)
  @@ ("." :> 46) @@ ("/" :> 47) @@ ("0" :> 48) @@ ("1" :> 49) @@ ("2" :> 50)
  @@ ("3" :> 51) @@ ("4" :> 52) @@ ("5" :> 53) @@ ("6" :> 54) @@ ("7" :> 55)
  @@ ("8" :> 56) @@ ("9" :> 57) @@ (":" :> 58) @@ ("<" :> 60) @@ ("=" :> 61)
  @@ (">" :> 62) @@ ("@" :> 64) @@ ("A" :> 65) @@ ("B" :> 66) @@ ("C" :> 67)
  @@ ("D" :> 68) @@ ("E" :> 69) @@ ("F" :> 70) @@ ("G" :> 71) @@ ("H" :> 72)
  @@ ("I" :> 73) @@ ("J" :> 74) @@ ("K" :> 75) @@ ("L" :> 76) @@ ("M" :> 77)
  @@ ("N" :> 78) @@ ("O" :> 79) @@ ("P" :> 80) @@ ("Q" :> 81) @@ ("R" :> 82)
  @@ ("S" :> 83) @@ ("T" :> 84) @@ ("U" :> 85) @@ ("V" :> 86) @@ ("W" :> 87)
  @@ ("X" :> 88) @@ ("Y" :> 89) @@ ("Z" :> 90) @@ ("[" :> 91)
  @@ (BACKSLASH :> 92) @@ ("]" :> 93) @@ ("_" :> 95) @@ ("a" :> 97)
  @@ ("b" :> 98)
  @@ ("c" :> 99) @@ ("d" :> 100) @@ ("e" :> 101) @@ ("f" :> 102)
  @@ ("g" :> 103) @@ ("h" :> 104) @@ ("i" :> 105) @@ ("j" :> 106)
  @@ ("k" :> 107) @@ ("l" :> 108) @@ ("m" :> 109) @@ ("n" :> 110)
  @@ ("o" :> 111) @@ ("p" :> 112) @@ ("q" :> 113) @@ ("r" :> 114)
  @@ ("s" :> 115) @@ ("t" :> 116) @@ ("u" :> 117) @@ ("v" :> 118)
  @@ ("w" :> 119) @@ ("x" :> 120) @@ ("y" :> 121) @@ ("z" :> 122)
  @@ ("{" :> 123) @@ ("}" :> 125)

Min(a, b) == IF a < b THEN a ELSE b

Spaces(n) == [i \in 1..n |-> " "]

\* s.substring(from, to) with 0-based, end-exclusive offsets
Substring(s, from, to) == SubSeq(s, from + 1, to)

\* s.startsWith(p) at 1-based index i
MatchesAt(s, i, p) ==
  /\ i + Len(p) - 1 <= Len(s)
  /\ \A k \in 1..Len(p) : s[i + k - 1] = p[k]

\* s.includes(p)
Includes(s, p) == \E i \in 1..(Len(s) + 1) : MatchesAt(s, i, p)

RECURSIVE Join(_, _)
\* parts.join(sep)
Join(parts, sep) ==
  IF Len(parts) = 0 THEN <<>>
  ELSE IF Len(parts) = 1 THEN parts[1]
  ELSE parts[1] \o sep \o Join(Tail(parts), sep)

RECURSIVE SplitFrom(_, _, _, _)
SplitFrom(s, c, i, cur) ==
  IF i > Len(s) THEN <<cur>>
  ELSE IF s[i] = c THEN <<cur>> \o SplitFrom(s, c, i + 1, <<>>)
  ELSE SplitFrom(s, c, i + 1, Append(cur, s[i]))

\* s.split(c) for a one-character separator: always at least one piece
Split(s, c) == SplitFrom(s, c, 1, <<>>)

RECURSIVE NatToString(_)
NatToString(n) ==
  IF n < 10 THEN <<Digits[n + 1]>>
  ELSE Append(NatToString(n \div 10), Digits[(n % 10) + 1])

\* String(n) for an integer
NumberToString(n) == IF n < 0 THEN <<"-">> \o NatToString(0 - n) ELSE NatToString(n)

DigitValue(c) == CHOOSE d \in 0..9 : Digits[d + 1] = c

RECURSIVE ParseIntFrom(_, _, _)
ParseIntFrom(s, i, acc) ==
  IF i > Len(s) \/ s[i] \notin DigitSet THEN acc
  ELSE ParseIntFrom(s, i + 1, acc * 10 + DigitValue(s[i]))

\* parseInt(s) of a text that starts with a decimal digit
ParseInt(s) == ParseIntFrom(s, 1, 0)

\* s matches /^\d+$/
IsAllDigits(s) == Len(s) > 0 /\ \A i \in 1..Len(s) : s[i] \in DigitSet

\* a < b in the code-unit order of JavaScript strings
RECURSIVE StrLess(_, _)
StrLess(a, b) ==
  IF Len(a) = 0 THEN Len(b) > 0
  ELSE IF Len(b) = 0 THEN FALSE
  ELSE IF a[1] = b[1] THEN StrLess(Tail(a), Tail(b))
  ELSE CharCode[a[1]] < CharCode[b[1]]

RECURSIVE SortStrings(_)
\* Array.prototype.sort() of a set of distinct strings
SortStrings(S) ==
  IF S = {} THEN <<>>
  ELSE LET m == CHOOSE x \in S : \A y \in S \ {x} : StrLess(x, y)
       IN <<m>> \o SortStrings(S \ {m})

SeqToSet(s) == {s[i] : i \in 1..Len(s)}

(***************************************************************************)
(* Values: what JSON.parse returns, plus undefined and the function-valued *)
(* members every object inherits from Object.prototype.                    *)
(***************************************************************************)
MkValue(k, n, s, ks, its) == [kind |-> k, num |-> n, str |-> s, keys |-> ks, items |-> its]

Undefined == MkValue("undefined", 0, <<>>, <<>>, <<>>)
Null == MkValue("null", 0, <<>>, <<>>, <<>>)
Bool(b) == MkValue("boolean", IF b THEN 1 ELSE 0, <<>>, <<>>, <<>>)
Num(n) == MkValue("number", n, <<>>, <<>>, <<>>)
Str(s) == MkValue("string", 0, s, <<>>, <<>>)
Arr(its) == MkValue("array", 0, <<>>, <<>>, its)
Obj(ks, its) == MkValue("object", 0, <<>>, ks, its)
Function == MkValue("function", 0, <<>>, <<>>, <<>>)

\* typeof v
TypeOf(v) == IF v.kind \in {"null", "array"} THEN "object" ELSE v.kind

IsArray(v) == v.kind = "array"

\* typeof v === 'object' && v !== null && !Array.isArray(v)
IsPlainObject(v) == v.kind = "object"

\* a canonical array index: the integer-like keys an object lists first
IsIndexKey(k) == IsAllDigits(k) /\ (Len(k) = 1 \/ k[1] # "0")

KeyPos(v, k) == CHOOSE i \in 1..Len(v.keys) : v.keys[i] = k

HasOwn(v, k) == \E i \in 1..Len(v.keys) : v.keys[i] = k

\* position at which a new key enters the own-key order: index keys first in
\* ascending numeric order, then the other keys in insertion order
InsertPos(ks, k) ==
  IF IsIndexKey(k)
  THEN 1 + Cardinality({i \in 1..Len(ks) : IsIndexKey(ks[i]) /\ ParseInt(ks[i]) < ParseInt(k)})
  ELSE Len(ks) + 1

InsertAt(s, i, e) == SubSeq(s, 1, i - 1) \o <<e>> \o SubSeq(s, i, Len(s))

\* obj[k] = x on a plain object
ObjPut(v, k, x) ==
  IF HasOwn(v, k)
  THEN Obj(v.keys, [v.items EXCEPT ![KeyPos(v, k)] = x])
  ELSE LET p == InsertPos(v.keys, k)
       IN Obj(InsertAt(v.keys, p, k), InsertAt(v.items, p, x))

(***************************************************************************)
(* JSON.stringify                                                          *)
(***************************************************************************)
RECURSIVE EscapeString(_)
EscapeString(s) ==
  IF Len(s) = 0 THEN <<>>
  ELSE (IF s[1] = QUOTE THEN <<BACKSLASH, QUOTE>>
        ELSE IF s[1] = BACKSLASH THEN <<BACKSLASH, BACKSLASH>>
        ELSE IF s[1] = NL THEN <<BACKSLASH, "n">>
        ELSE <<s[1]>>) \o EscapeString(Tail(s))

QuoteString(s) == <<QUOTE>> \o EscapeString(s) \o <<QUOTE>>

\* values JSON.stringify leaves out of objects and turns to null in arrays
IsUnserializable(v) == v.kind \in {"undefined", "function"}

SelectIndices(n, P(_)) ==
  LET RECURSIVE Pick(_)
      Pick(i) == IF i > n THEN <<>>
                 ELSE (IF P(i) THEN <<i>> ELSE <<>>) \o Pick(i + 1)
  IN Pick(1)

RECURSIVE Serialize(_, _, _)
Serialize(v, gap, ind) ==
  LET step == ind \o gap
      open(b) == IF Len(gap) = 0 THEN <<b>> ELSE <<b, NL>> \o step
      sep == IF Len(gap) = 0 THEN <<",">> ELSE <<",", NL>> \o step
      close(b) == IF Len(gap) = 0 THEN <<b>> ELSE <<NL>> \o ind \o <<b>>
  IN CASE v.kind = "null" -> <<"n","u","l","l">>
       [] v.kind = "boolean" ->
            IF v.num = 1 THEN <<"t","r","u","e">> ELSE <<"f","a","l","s","e">>
       [] v.kind = "number" -> NumberToString(v.num)
       [] v.kind = "string" -> QuoteString(v.str)
       [] v.kind = "array" ->
            IF Len(v.items) = 0 THEN <<"[", "]">>
            ELSE LET parts == [i \in 1..Len(v.items) |->
                                 IF IsUnserializable(v.items[i])
                                 THEN <<"n","u","l","l">>
                                 ELSE Serialize(v.items[i], gap, step)]
                 IN open("[") \o Join(parts, sep) \o close("]")
       [] v.kind = "object" ->
            LET idx == SelectIndices(Len(v.keys), LAMBDA i : ~IsUnserializable(v.items[i]))
                parts == [j \in 1..Len(idx) |->
                            QuoteString(v.keys[idx[j]])
                            \o (IF Len(gap) = 0 THEN <<":">> ELSE <<":", " ">>)
                            \o Serialize(v.items[idx[j]], gap, step)]
            IN IF Len(idx) = 0 THEN <<"{", "}">>
               ELSE open("{") \o Join(parts, sep) \o close("}")

UndefinedText == <<"u","n","d","e","f","i","n","e","d">>

\* JSON.stringify(v, null, indent); the text `undefined` stands for the
\* undefined it returns for an unserializable v, which no serialization equals
JSONStringify(v, indent) ==
  IF IsUnserializable(v) THEN UndefinedText
  ELSE Serialize(v, IF indent >= 1 THEN Spaces(Min(indent, 10)) ELSE <<>>, <<>>)

(***************************************************************************)
(* JSON.parse: a recursive-descent parser over the text.  A result is      *)
(* [ok, val, next]: next is the 1-based index after the value, or, on      *)
(* failure, the index of the character that could not be accepted          *)
(* (Len(text) + 1 when the text ends too early).  Numbers are integers.    *)
(***************************************************************************)
ParseOk(v, i) == [ok |-> TRUE, val |-> v, next |-> i]
ParseFail(i) == [ok |-> FALSE, val |-> Undefined, next |-> i]

IsWhitespace(c) == c \in {" ", NL}

RECURSIVE SkipWhitespace(_, _)
SkipWhitespace(t, i) ==
  IF i <= Len(t) /\ IsWhitespace(t[i]) THEN SkipWhitespace(t, i + 1) ELSE i

RECURSIVE ParseLiteral(_, _, _, _, _)
ParseLiteral(t, i, word, k, v) ==
  IF k > Len(word) THEN ParseOk(v, i)
  ELSE IF i > Len(t) \/ t[i] # word[k] THEN ParseFail(i)
  ELSE ParseLiteral(t, i + 1, word, k + 1, v)

RECURSIVE ParseDigits(_, _, _)
ParseDigits(t, i, acc) ==
  IF i <= Len(t) /\ t[i] \in DigitSet
  THEN ParseDigits(t, i + 1, acc * 10 + DigitValue(t[i]))
  ELSE [val |-> acc, next |-> i]

ParseNumber(t, i) ==
  LET neg == t[i] = "-"
      j == IF neg THEN i + 1 ELSE i
  IN IF j > Len(t) \/ t[j] \notin DigitSet THEN ParseFail(j)
     ELSE LET d == IF t[j] = "0" THEN [val |-> 0, next |-> j + 1]
                   ELSE ParseDigits(t, j, 0)
          IN ParseOk(Num(IF neg THEN 0 - d.val ELSE d.val), d.next)

RECURSIVE ParseStringBody(_, _, _)
\* i is the index after the opening quote
ParseStringBody(t, i, acc) ==
  IF i > Len(t) THEN ParseFail(i)
  ELSE IF t[i] = QUOTE THEN ParseOk(Str(acc), i + 1)
  ELSE IF t[i] = NL THEN ParseFail(i)
  ELSE IF t[i] = BACKSLASH
       THEN IF i + 1 > Len(t) THEN ParseFail(i + 1)
            ELSE IF t[i + 1] \in {QUOTE, BACKSLASH}
                 THEN ParseStringBody(t, i + 2, Append(acc, t[i + 1]))
            ELSE IF t[i + 1] = "n"
                 THEN ParseStringBody(t, i + 2, Append(acc, NL))
            ELSE ParseFail(i + 1)
  ELSE ParseStringBody(t, i + 1, Append(acc, t[i]))

RECURSIVE ParseValue(_, _)
RECURSIVE ParseElements(_, _, _)
RECURSIVE ParseMembers(_, _, _)

ParseValue(t, i0) ==
  LET i == SkipWhitespace(t, i0)
  IN IF i > Len(t) THEN ParseFail(i)
     ELSE CASE t[i] = "{" ->
                 LET j == SkipWhitespace(t, i + 1)
                 IN IF j <= Len(t) /\ t[j] = "}" THEN ParseOk(Obj(<<>>, <<>>), j + 1)
                    ELSE ParseMembers(t, j, Obj(<<>>, <<>>))
            [] t[i] = "[" ->
                 LET j == SkipWhitespace(t, i + 1)
                 IN IF j <= Len(t) /\ t[j] = "]" THEN ParseOk(Arr(<<>>), j + 1)
                    ELSE ParseElements(t, j, <<>>)
            [] t[i] = QUOTE -> ParseStringBody(t, i + 1, <<>>)
            [] t[i] = "-" \/ t[i] \in DigitSet -> ParseNumber(t, i)
            [] t[i] = "t" -> ParseLiteral(t, i, <<"t","r","u","e">>, 1, Bool(TRUE))
            [] t[i] = "f" -> ParseLiteral(t, i, <<"f","a","l","s","e">>, 1, Bool(FALSE))
            [] t[i] = "n" -> ParseLiteral(t, i, <<"n","u","l","l">>, 1, Null)
            [] OTHER -> ParseFail(i)

ParseElements(t, i, acc) ==
  LET r == ParseValue(t, i)
  IN IF ~r.ok THEN r
     ELSE LET k == SkipWhitespace(t, r.next)
          IN IF k > Len(t) THEN ParseFail(k)
             ELSE IF t[k] = "," THEN ParseElements(t, k + 1, Append(acc, r.val))
             ELSE IF t[k] = "]" THEN ParseOk(Arr(Append(acc, r.val)), k + 1)
             ELSE ParseFail(k)

ParseMembers(t, i0, acc) ==
  LET i == SkipWhitespace(t, i0)
  IN IF i > Len(t) \/ t[i] # QUOTE THEN ParseFail(i)
     ELSE LET ks == ParseStringBody(t, i + 1, <<>>)
          IN IF ~ks.ok THEN ks
             ELSE LET c == SkipWhitespace(t, ks.next)
                  IN IF c > Len(t) \/ t[c] # ":" THEN ParseFail(c)
                     ELSE LET r == ParseValue(t, c + 1)
                          IN IF ~r.ok THEN r
                             ELSE LET k == SkipWhitespace(t, r.next)
                                      o == ObjPut(acc, ks.val.str, r.val)
                                  IN IF k > Len(t) THEN ParseFail(k)
                                     ELSE IF t[k] = "," THEN ParseMembers(t, k + 1, o)
                                     ELSE IF t[k] = "}" THEN ParseOk(o, k + 1)
                                     ELSE ParseFail(k)

\* JSON.parse(text): ok, or the failure with its 0-based character offset
JSONParse(t) ==
  LET r == ParseValue(t, 1)
  IN IF ~r.ok THEN [ok |-> FALSE, val |-> Undefined, pos |-> r.next - 1]
     ELSE LET k == SkipWhitespace(t, r.next)
          IN IF k <= Len(t) THEN [ok |-> FALSE, val |-> Undefined, pos |-> k - 1]
             ELSE [ok |-> TRUE, val |-> r.val, pos |-> 0]

(***************************************************************************)
(* Outcomes of a call: it returns a value or throws an Error.              *)
(***************************************************************************)
Returned(v) == [threw |-> FALSE, value |-> v]
Thrown(msg) == [threw |-> TRUE, error |-> msg]

(***************************************************************************)
(* Path queries                                                            *)
(***************************************************************************)
KeyValueOf == <<"v","a","l","u","e","O","f">>
KeyLength == <<"l","e","n","g","t","h">>

\* v[key] for a key that is not all digits.  Of the members a value inherits
\* from its prototype the model has valueOf (every value has it) and the
\* length of arrays, strings and functions.
GetProperty(v, key) ==
  IF v.kind = "object" /\ HasOwn(v, key) THEN v.items[KeyPos(v, key)]
  ELSE IF key = KeyLength /\ v.kind \in {"array", "string", "function"}
       THEN Num(IF v.kind = "array" THEN Len(v.items)
                ELSE IF v.kind = "string" THEN Len(v.str) ELSE 0)
  ELSE IF key = KeyValueOf THEN Function
  ELSE Undefined

RECURSIVE WalkPath(_, _)
WalkPath(current, keys) ==
  IF Len(keys) = 0 THEN current
  ELSE IF current.kind \in {"null", "undefined"} THEN Undefined
  ELSE IF IsAllDigits(keys[1])
       THEN LET index == ParseInt(keys[1])
            IN IF IsArray(current) /\ index >= 0 /\ index < Len(current.items)
               THEN WalkPath(current.items[index + 1], Tail(keys))
               ELSE Undefined
  ELSE WalkPath(GetProperty(current, keys[1]), Tail(keys))

\* a traversal that reads a digit segment off an object as a property name
RECURSIVE WalkPath_NumericAsProperty(_, _)
WalkPath_NumericAsProperty(current, keys) ==
  IF Len(keys) = 0 THEN current
  ELSE IF current.kind \in {"null", "undefined"} THEN Undefined
  ELSE IF IsAllDigits(keys[1]) /\ IsArray(current)
       THEN LET index == ParseInt(keys[1])
            IN IF index >= 0 /\ index < Len(current.items)
               THEN WalkPath_NumericAsProperty(current.items[index + 1], Tail(keys))
               ELSE Undefined
  ELSE WalkPath_NumericAsProperty(GetProperty(current, keys[1]), Tail(keys))

getValueAtPath_NumericAsProperty(obj, path) ==
  IF Len(path) = 0 THEN obj ELSE WalkPath_NumericAsProperty(obj, Split(path, "."))

getValueAtPath(obj, path) ==
  IF Len(path) = 0 THEN obj ELSE WalkPath(obj, Split(path, "."))

\* query.replace(/^\$?\./, '')
CleanQuery(q) ==
  IF MatchesAt(q, 1, <<"$", ".">>) THEN SubSeq(q, 3, Len(q))
  ELSE IF MatchesAt(q, 1, <<".">>) THEN SubSeq(q, 2, Len(q))
  ELSE q

\* q.match(/^(.+?)\[(\d+|\*)\]$/): the bracket must close the text, and the
\* path before it is at least one character, none of them a line break
ArrayMatchStarts(q) ==
  {i \in 2..Len(q) :
     /\ q[i] = "["
     /\ q[Len(q)] = "]"
     /\ LET inner == SubSeq(q, i + 1, Len(q) - 1)
        IN IsAllDigits(inner) \/ inner = <<"*">>
     /\ \A k \in 1..(i - 1) : q[k] # NL}

ArrayMatch(q) ==
  LET starts == ArrayMatchStarts(q)
  IN IF starts = {} THEN [matched |-> FALSE, path |-> <<>>, index |-> <<>>]
     ELSE LET i == CHOOSE x \in starts : \A y \in starts : x <= y
          IN [matched |-> TRUE, path |-> SubSeq(q, 1, i - 1),
              index |-> SubSeq(q, i + 1, Len(q) - 1)]

\* evaluateJSONPath with the index taken one too far
evaluateJSONPath_OffByOne(obj, q) ==
  LET cleanQuery == CleanQuery(q)
      arrayMatch == ArrayMatch(cleanQuery)
      parent == getValueAtPath(obj, arrayMatch.path)
      idx == ParseInt(arrayMatch.index) + 1
  IN IF Len(cleanQuery) = 0 THEN <<obj>>
     ELSE IF arrayMatch.matched /\ IsArray(parent) /\ arrayMatch.index = <<"*">>
          THEN parent.items
     ELSE IF /\ arrayMatch.matched /\ IsArray(parent) /\ arrayMatch.index # <<"*">>
             /\ idx >= 0 /\ idx < Len(parent.items)
          THEN <<parent.items[idx + 1]>>
     ELSE <<getValueAtPath(obj, cleanQuery)>>

evaluateJSONPath(obj, q) ==
  LET cleanQuery == CleanQuery(q)
      arrayMatch == ArrayMatch(cleanQuery)
      parent == getValueAtPath(obj, arrayMatch.path)
      idx == ParseInt(arrayMatch.index)
  IN IF Len(cleanQuery) = 0 THEN <<obj>>
     ELSE IF arrayMatch.matched /\ IsArray(parent) /\ arrayMatch.index = <<"*">>
          THEN parent.items
     ELSE IF /\ arrayMatch.matched /\ IsArray(parent) /\ arrayMatch.index # <<"*">>
             /\ idx >= 0 /\ idx < Len(parent.items)
          THEN <<parent.items[idx + 1]>>
     ELSE <<getValueAtPath(obj, cleanQuery)>>

MsgInvalidJSONFormat == <<"I","n","v","a","l","i","d"," ","J","S","O","N"," ","f","o","r","m","a","t">>

queryJSON(text, q) ==
  LET parsed == JSONParse(text)
  IN IF parsed.ok THEN Returned(evaluateJSONPath(parsed.val, q))
     ELSE Thrown(MsgInvalidJSONFormat)

(***************************************************************************)
(* Structural diff                                                         *)
(***************************************************************************)
\* JavaScript truthiness
IsTruthy(v) ==
  CASE v.kind \in {"undefined", "null"} -> FALSE
    [] v.kind \in {"boolean", "number"} -> v.num # 0
    [] v.kind = "string" -> Len(v.str) > 0
    [] OTHER -> TRUE

\* Object.keys(v || {})
ObjectKeys(v) ==
  IF ~IsTruthy(v) THEN <<>>
  ELSE CASE v.kind = "object" -> v.keys
         [] v.kind = "array" -> [i \in 1..Len(v.items) |-> NatToString(i - 1)]
         [] v.kind = "string" -> [i \in 1..Len(v.str) |-> NatToString(i - 1)]
         [] OTHER -> <<>>

\* v?.[key]
Member(v, key) ==
  IF v.kind \in {"null", "undefined"} THEN Undefined
  ELSE IF v.kind = "array" /\ IsIndexKey(key)
       THEN IF ParseInt(key) < Len(v.items) THEN v.items[ParseInt(key) + 1] ELSE Undefined
  ELSE IF v.kind = "string" /\ IsIndexKey(key)
       THEN IF ParseInt(key) < Len(v.str) THEN Str(<<v.str[ParseInt(key) + 1]>>) ELSE Undefined
  ELSE GetProperty(v, key)

\* JSON.stringify(v, null, 2).split('\n').join('\n' + spaces + '  ')
Reindented(v, spaces) ==
  Join(Split(JSONStringify(v, 2), NL), <<NL>> \o spaces \o <<" ", " ">>)

\* `${spaces}${marker}"${key}": ${text}\n`
DiffEntry(spaces, marker, key, text) ==
  spaces \o marker \o <<QUOTE>> \o key \o <<QUOTE, ":", " ">> \o text \o <<NL>>

\* the entry of a value that only one side has, or of one side of a modified
\* value: an object is printed over several lines when pretty is set
ValueEntry(spaces, marker, key, val, pretty) ==
  IF pretty THEN DiffEntry(spaces, marker, key, Reindented(val, spaces))
  ELSE DiffEntry(spaces, marker, key, JSONStringify(val, 0))

\* the entries of a modified value in the other order, the added value first
Modified_AddedFirst(spaces, key, val1, val2) ==
  ValueEntry(spaces, <<"+", " ">>, key, val2, TypeOf(val2) = "object" /\ val2.kind # "null")
  \o ValueEntry(spaces, <<"-", " ">>, key, val1, TypeOf(val1) = "object" /\ val1.kind # "null")

\* the entries of a modified value
Modified(spaces, key, val1, val2) ==
  ValueEntry(spaces, <<"-", " ">>, key, val1, TypeOf(val1) = "object" /\ val1.kind # "null")
  \o ValueEntry(spaces, <<"+", " ">>, key, val2, TypeOf(val2) = "object" /\ val2.kind # "null")

\* a block whose brace lines carry the removed marker
Block_MarkedBraces(spaces, key, inner) ==
  DiffEntry(spaces, <<"-", " ">>, key, <<"{">>) \o inner \o spaces \o <<"-", " ", "}", NL>>

\* the block of a key whose two values are walked: `"key": {`, the diff of
\* the values one level deeper, `}`
Block(spaces, key, inner) ==
  DiffEntry(spaces, <<" ", " ">>, key, <<"{">>) \o inner \o spaces \o <<" ", " ", "}", NL>>

\* an unchanged value printed over several lines
UnchangedLine_Pretty(spaces, key, val) ==
  DiffEntry(spaces, <<" ", " ">>, key, Reindented(val, spaces))

\* the line of an unchanged value that is not walked
UnchangedLine(spaces, key, val) ==
  DiffEntry(spaces, <<" ", " ">>, key, JSONStringify(val, 0))

RECURSIVE generateDiff(_, _, _)
RECURSIVE DiffKeys(_, _, _, _)

\* the body of the loop over sortedKeys, for the keys that remain
DiffKeys(obj1, obj2, indent, sortedKeys) ==
  IF Len(sortedKeys) = 0 THEN <<>>
  ELSE
    LET spaces == Spaces(2 * indent)
        key == sortedKeys[1]
        val1 == Member(obj1, key)
        val2 == Member(obj2, key)
        line ==
          IF JSONStringify(val1, 0) # JSONStringify(val2, 0)
          THEN IF val1.kind = "undefined"
               THEN ValueEntry(spaces, <<"+", " ">>, key, val2, IsPlainObject(val2))
               ELSE IF val2.kind = "undefined"
               THEN ValueEntry(spaces, <<"-", " ">>, key, val1, IsPlainObject(val1))
               ELSE IF /\ TypeOf(val1) = "object" /\ TypeOf(val2) = "object"
                       /\ val1.kind # "null" /\ val2.kind # "null"
               THEN Block(spaces, key, generateDiff(val1, val2, indent + 1))
               ELSE Modified(spaces, key, val1, val2)
          ELSE IF IsPlainObject(val1)
               THEN Block(spaces, key, generateDiff(val1, val2, indent + 1))
               ELSE UnchangedLine(spaces, key, val1)
    IN line \o DiffKeys(obj1, obj2, indent, Tail(sortedKeys))

generateDiff(obj1, obj2, indent) ==
  LET keys == SeqToSet(ObjectKeys(obj1)) \cup SeqToSet(ObjectKeys(obj2))
  IN DiffKeys(obj1, obj2, indent, SortStrings(keys))

MsgInvalidJSONInputs ==
  <<"I","n","v","a","l","i","d"," ","J","S","O","N"," ","f","o","r","m","a","t"," ",
    "i","n"," ","o","n","e"," ","o","r"," ","b","o","t","h"," ","i","n","p","u","t","s">>

\* what compareJSON returns for the diff text
DiffResult(diff) ==
  Returned([diff |-> diff,
            hasDifferences |-> Includes(diff, <<"+", " ">>) \/ Includes(diff, <<"-", " ">>)])

\* a comparison that fails only for an unparsable first text
CompareParsed_FirstTextOnly(obj1, obj2) ==
  IF obj1.ok THEN DiffResult(generateDiff(obj1.val, obj2.val, 0))
  ELSE Thrown(MsgInvalidJSONInputs)

\* compareJSON, given what JSON.parse did with the two texts
CompareParsed(obj1, obj2) ==
  IF obj1.ok /\ obj2.ok THEN DiffResult(generateDiff(obj1.val, obj2.val, 0))
  ELSE Thrown(MsgInvalidJSONInputs)

compareJSON(text1, text2) == CompareParsed(JSONParse(text1), JSONParse(text2))

(***************************************************************************)
(* Schema validation                                                       *)
(***************************************************************************)
KeyType == <<"t","y","p","e">>
KeyProperties == <<"p","r","o","p","e","r","t","i","e","s">>
KeyItems == <<"i","t","e","m","s">>
KeyRequired == <<"r","e","q","u","i","r","e","d">>
KeyEnum == <<"e","n","u","m">>
KeyMinimum == <<"m","i","n","i","m","u","m">>
KeyMaximum == <<"m","a","x","i","m","u","m">>
KeyMinLength == <<"m","i","n","L","e","n","g","t","h">>
KeyMaxLength == <<"m","a","x","L","e","n","g","t","h">>
KeyMinItems == <<"m","i","n","I","t","e","m","s">>
KeyMaxItems == <<"m","a","x","I","t","e","m","s">>

MsgExpectedType == <<":"," ","E","x","p","e","c","t","e","d"," ","t","y","p","e"," ">>
MsgGot == <<","," ","g","o","t"," ">>
MsgRequiredMissing == <<":"," ","R","e","q","u","i","r","e","d"," ","p","r","o","p","e","r","t","y"," ","m","i","s","s","i","n","g">>
MsgOneOf == <<":"," ","V","a","l","u","e"," ","m","u","s","t"," ","b","e"," ","o","n","e"," ","o","f"," ">>
MsgValueMin == <<":"," ","V","a","l","u","e"," ","m","u","s","t"," ","b","e"," ",">","="," ">>
MsgValueMax == <<":"," ","V","a","l","u","e"," ","m","u","s","t"," ","b","e"," ","<","="," ">>
MsgStringMin == <<":"," ","S","t","r","i","n","g"," ","m","u","s","t"," ","b","e"," ",">","="," ">>
MsgStringMax == <<":"," ","S","t","r","i","n","g"," ","m","u","s","t"," ","b","e"," ","<","="," ">>
MsgCharacters == <<" ","c","h","a","r","a","c","t","e","r","s">>
MsgArrayMin == <<":"," ","A","r","r","a","y"," ","m","u","s","t"," ","h","a","v","e"," ",">","="," ">>
MsgArrayMax == <<":"," ","A","r","r","a","y"," ","m","u","s","t"," ","h","a","v","e"," ","<","="," ">>
MsgItems == <<" ","i","t","e","m","s">>
MsgInvalidJSONOrSchema ==
  <<"I","n","v","a","l","i","d"," ","J","S","O","N"," ","o","r"," ","S","c","h","e","m","a"," ",
    "f","o","r","m","a","t">>

\* Array.isArray(data) ? 'array' : data === null ? 'null' : typeof data
ActualType(v) ==
  CASE v.kind = "array" -> <<"a","r","r","a","y">>
    [] v.kind = "null" -> <<"n","u","l","l">>
    [] v.kind = "object" -> <<"o","b","j","e","c","t">>
    [] v.kind = "string" -> <<"s","t","r","i","n","g">>
    [] v.kind = "number" -> <<"n","u","m","b","e","r">>
    [] v.kind = "boolean" -> <<"b","o","o","l","e","a","n">>
    [] v.kind = "function" -> <<"f","u","n","c","t","i","o","n">>
    [] OTHER -> UndefinedText

RECURSIVE ToStringJS(_)
\* String(v), as a template literal renders v
ToStringJS(v) ==
  CASE v.kind = "string" -> v.str
    [] v.kind = "number" -> NumberToString(v.num)
    [] v.kind = "boolean" ->
         IF v.num = 1 THEN <<"t","r","u","e">> ELSE <<"f","a","l","s","e">>
    [] v.kind = "null" -> <<"n","u","l","l">>
    [] v.kind = "array" ->
         Join([i \in 1..Len(v.items) |->
                 IF v.items[i].kind \in {"null", "undefined"} THEN <<>>
                 ELSE ToStringJS(v.items[i])], <<",">>)
    [] v.kind = "object" -> <<"[","o","b","j","e","c","t"," ","O","b","j","e","c","t","]">>
    [] OTHER -> UndefinedText

RECURSIVE TrimLeft(_)
TrimLeft(s) == IF Len(s) > 0 /\ IsWhitespace(s[1]) THEN TrimLeft(Tail(s)) ELSE s

RECURSIVE TrimRight(_)
TrimRight(s) ==
  IF Len(s) > 0 /\ IsWhitespace(s[Len(s)]) THEN TrimRight(SubSeq(s, 1, Len(s) - 1)) ELSE s

NaN == [nan |-> TRUE, n |-> 0]
Number(n) == [nan |-> FALSE, n |-> n]

\* Number(text): integers in decimal notation
StringToNumber(text) ==
  LET t == TrimRight(TrimLeft(text))
  IN IF Len(t) = 0 THEN Number(0)
     ELSE IF IsAllDigits(t) THEN Number(ParseInt(t))
     ELSE IF t[1] = "-" /\ IsAllDigits(Tail(t)) THEN Number(0 - ParseInt(Tail(t)))
     ELSE NaN

\* the number a relational operator compares v as
ToNumber(v) ==
  CASE v.kind \in {"number", "boolean"} -> Number(v.num)
    [] v.kind = "null" -> Number(0)
    [] v.kind = "string" -> StringToNumber(v.str)
    [] v.kind = "array" -> StringToNumber(ToStringJS(v))
    [] OTHER -> NaN

\* n < bound and n > bound, false when the bound is not a number
LessThan(n, bound) == ~ToNumber(bound).nan /\ n < ToNumber(bound).n
GreaterThan(n, bound) == ~ToNumber(bound).nan /\ n > ToNumber(bound).n

\* key in data, for a plain object: its own keys and the inherited members
HasProperty(data, key) == GetProperty(data, key).kind # "undefined"

\* x === y for the elements Array.prototype.includes compares: objects and
\* arrays of two parses are never the same reference
SameValueZero(x, y) ==
  /\ x.kind = y.kind
  /\ x.kind \in {"null", "boolean", "number", "string"}
  /\ x = y

\* the errors a check has pushed, or the TypeError it has thrown
NoErrors == [threw |-> FALSE, errors |-> <<>>]
Errors(e) == [threw |-> FALSE, errors |-> e]
TypeError == [threw |-> TRUE, errors |-> <<>>]

Then(r1, r2) ==
  IF r1.threw THEN r1 ELSE IF r2.threw THEN r2 ELSE Errors(r1.errors \o r2.errors)

\* actualType !== schema.type, for a schema.type that is not falsy
TypeDiffers(data, type) ==
  IsTruthy(type) /\ ~(type.kind = "string" /\ type.str = ActualType(data))

TypeMessage(data, type, path) ==
  path \o MsgExpectedType \o ToStringJS(type) \o MsgGot \o ActualType(data)

\* a type check that records its error and goes on with the other checks
CheckType_NoReturn(data, type, path, others) ==
  IF TypeDiffers(data, type)
  THEN Then(Errors(<<TypeMessage(data, type, path)>>), others)
  ELSE others

\* the check of schema.type: a mismatch records one error and returns, and
\* the other checks of the node run only without a mismatch
CheckType(data, type, path, others) ==
  IF TypeDiffers(data, type)
  THEN Errors(<<TypeMessage(data, type, path)>>)
  ELSE others

RECURSIVE validateAgainstSchema(_, _, _)
RECURSIVE CheckProperties(_, _, _, _)
RECURSIVE CheckItems(_, _, _, _)
RECURSIVE CheckRequired(_, _, _, _)

\* Object.entries(schema.properties).forEach(...), from the i-th entry on
CheckProperties(data, properties, path, i) ==
  IF i > Len(ObjectKeys(properties)) THEN NoErrors
  ELSE LET key == ObjectKeys(properties)[i]
           propSchema == Member(properties, key)
           newPath == IF Len(path) > 0 THEN path \o <<".">> \o key ELSE key
           this == IF HasProperty(data, key)
                   THEN validateAgainstSchema(Member(data, key), propSchema, newPath)
                   ELSE IF propSchema.kind = "null" THEN TypeError
                   ELSE IF IsTruthy(Member(propSchema, KeyRequired))
                        THEN Errors(<<newPath \o MsgRequiredMissing>>)
                   ELSE NoErrors
       IN Then(this, CheckProperties(data, properties, path, i + 1))

\* data.forEach((item, index) => ...), from the i-th item on
CheckItems(data, items, path, i) ==
  IF i > Len(data.items) THEN NoErrors
  ELSE Then(validateAgainstSchema(data.items[i], items,
                                  path \o <<"[">> \o NatToString(i - 1) \o <<"]">>),
            CheckItems(data, items, path, i + 1))

\* schema.required.forEach(key => ...), from the i-th name on
CheckRequired(data, required, path, i) ==
  IF i > Len(required.items) THEN NoErrors
  ELSE LET key == ToStringJS(required.items[i])
       IN Then(IF ~HasProperty(data, key)
               THEN Errors(<<path \o <<".">> \o key \o MsgRequiredMissing>>)
               ELSE NoErrors,
               CheckRequired(data, required, path, i + 1))

validateAgainstSchema(data, schema, path) ==
  LET type == Member(schema, KeyType)
      properties == Member(schema, KeyProperties)
      items == Member(schema, KeyItems)
      required == Member(schema, KeyRequired)
      enum == Member(schema, KeyEnum)
      minimum == Member(schema, KeyMinimum)
      maximum == Member(schema, KeyMaximum)
      minLength == Member(schema, KeyMinLength)
      maxLength == Member(schema, KeyMaxLength)
      minItems == Member(schema, KeyMinItems)
      maxItems == Member(schema, KeyMaxItems)
      Check(cond, msg) == IF cond THEN Errors(<<path \o msg>>) ELSE NoErrors
  IN IF schema.kind \in {"null", "undefined"} THEN TypeError
     ELSE CheckType(data, type, path,
       Then(IF IsTruthy(properties) /\ IsPlainObject(data)
            THEN CheckProperties(data, properties, path, 1) ELSE NoErrors,
       Then(IF IsTruthy(items) /\ IsArray(data)
            THEN CheckItems(data, items, path, 1) ELSE NoErrors,
       Then(IF IsTruthy(required) /\ IsPlainObject(data)
            THEN IF IsArray(required) THEN CheckRequired(data, required, path, 1)
                 ELSE TypeError
            ELSE NoErrors,
       Then(Check(/\ IsTruthy(enum) /\ IsArray(enum)
                  /\ ~\E i \in 1..Len(enum.items) : SameValueZero(enum.items[i], data),
                  MsgOneOf \o JSONStringify(enum, 0)),
       Then(Check(/\ minimum.kind # "undefined" /\ data.kind = "number"
                  /\ LessThan(data.num, minimum),
                  MsgValueMin \o ToStringJS(minimum)),
       Then(Check(/\ maximum.kind # "undefined" /\ data.kind = "number"
                  /\ GreaterThan(data.num, maximum),
                  MsgValueMax \o ToStringJS(maximum)),
       Then(Check(/\ minLength.kind # "undefined" /\ data.kind = "string"
                  /\ LessThan(Len(data.str), minLength),
                  MsgStringMin \o ToStringJS(minLength) \o MsgCharacters),
       Then(Check(/\ maxLength.kind # "undefined" /\ data.kind = "string"
                  /\ GreaterThan(Len(data.str), maxLength),
                  MsgStringMax \o ToStringJS(maxLength) \o MsgCharacters),
       Then(Check(/\ minItems.kind # "undefined" /\ IsArray(data)
                  /\ LessThan(Len(data.items), minItems),
                  MsgArrayMin \o ToStringJS(minItems) \o MsgItems),
            Check(/\ maxItems.kind # "undefined" /\ IsArray(data)
                  /\ GreaterThan(Len(data.items), maxItems),
                  MsgArrayMax \o ToStringJS(maxItems) \o MsgItems)))))))))))

SchemaFailure == Returned([valid |-> FALSE, errors |-> <<MsgInvalidJSONOrSchema>>])

\* what validateSchema returns for the outcome of validateAgainstSchema
CheckedResult(checked) ==
  IF checked.threw THEN SchemaFailure
  ELSE Returned([valid |-> Len(checked.errors) = 0, errors |-> checked.errors])

\* validateSchema, given what JSON.parse did with the two texts
ValidateSchemaParsed(json, schema) ==
  IF json.ok /\ schema.ok
  THEN CheckedResult(validateAgainstSchema(json.val, schema.val, <<>>))
  ELSE SchemaFailure

validateSchema(text, schemaString) ==
  ValidateSchemaParsed(JSONParse(text), JSONParse(schemaString))

(***************************************************************************)
(* validate.  The message of the SyntaxError is the engine's: it may name  *)
(* the offset of the failure ("... at position N") or not, and the code    *)
(* reads the offset back out of the message text.  The messages modelled   *)
(* name the offending character but do not quote the source text.          *)
(***************************************************************************)
MsgUnexpectedToken == <<"U","n","e","x","p","e","c","t","e","d"," ","t","o","k","e","n"," ">>
MsgInJSONAtPosition ==
  <<" ","i","n"," ","J","S","O","N"," ","a","t"," ","p","o","s","i","t","i","o","n"," ">>
MsgUnexpectedEnd ==
  <<"U","n","e","x","p","e","c","t","e","d"," ","e","n","d"," ","o","f"," ","J","S","O","N"," ",
    "i","n","p","u","t">>

\* error.message of the SyntaxError JSON.parse throws at 0-based offset pos
ParseErrorMessage(text, pos, reportsPosition) ==
  LET token == IF pos < Len(text) THEN <<text[pos + 1]>> ELSE <<>>
  IN IF reportsPosition
     THEN MsgUnexpectedToken \o token \o MsgInJSONAtPosition \o NatToString(pos)
     ELSE IF pos < Len(text) THEN MsgUnexpectedToken \o token
     ELSE MsgUnexpectedEnd

RECURSIVE DigitsFrom(_, _)
DigitsFrom(s, i) ==
  IF i <= Len(s) /\ s[i] \in DigitSet THEN <<s[i]>> \o DigitsFrom(s, i + 1) ELSE <<>>

WordPosition == <<"p","o","s","i","t","i","o","n"," ">>

\* message.match(/position (\d+)/): the first place that matches
MatchPosition(message) ==
  LET starts == {i \in 1..Len(message) :
                   /\ MatchesAt(message, i, WordPosition)
                   /\ Len(DigitsFrom(message, i + Len(WordPosition))) > 0}
  IN IF starts = {} THEN [matched |-> FALSE, digits |-> <<>>]
     ELSE LET i == CHOOSE x \in starts : \A y \in starts : x <= y
          IN [matched |-> TRUE, digits |-> DigitsFrom(message, i + Len(WordPosition))]

\* the result that locates the failure, with a 0-based column
LocatedFailure_ColumnFromZero(message, lines) ==
  [valid |-> FALSE, error |-> message,
   line |-> Len(lines), column |-> Len(lines[Len(lines)])]

\* the result that locates the failure: lines is the text before the offset,
\* split at the line breaks
LocatedFailure(message, lines) ==
  [valid |-> FALSE, error |-> message,
   line |-> Len(lines), column |-> Len(lines[Len(lines)]) + 1]

\* the catch branch, given what the regex found in the message
FailureWith(text, message, match) ==
  IF match.matched
  THEN LocatedFailure(message,
         Split(Substring(text, 0, Min(ParseInt(match.digits), Len(text))), NL))
  ELSE [valid |-> FALSE, error |-> message]

Failure(text, message) == FailureWith(text, message, MatchPosition(message))

\* validate, given what JSON.parse did with the text
ValidateParsed(text, parsed, reportsPosition) ==
  IF parsed.ok THEN [valid |-> TRUE]
  ELSE Failure(text, ParseErrorMessage(text, parsed.pos, reportsPosition))

validate(text, reportsPosition) == ValidateParsed(text, JSONParse(text), reportsPosition)

(***************************************************************************)
(* format, minify, process.  sortKeys is a static method that reads        *)
(* `this`: called as this.sortKeys(x) its `this` is the class, handed to   *)
(* Array.prototype.map as a bare function its `this` is undefined (class   *)
(* bodies are strict code) and reading this.sortKeys throws a TypeError.   *)
(* A result of sortKeys is [threw, value].                                 *)
(***************************************************************************)
KeyProto == <<"_","_","p","r","o","t","o","_","_">>

\* the keys in the reverse of their own order, unsorted
SortedKeys_Reversed(obj) == [i \in 1..Len(obj.keys) |-> obj.keys[Len(obj.keys) + 1 - i]]

\* Object.keys(obj).sort()
SortedKeys(obj) == SortStrings(SeqToSet(obj.keys))

\* sorted[key] = x: the key __proto__ reaches the prototype setter and adds
\* no own property
Assign(sorted, key, x) == IF key = KeyProto THEN sorted ELSE ObjPut(sorted, key, x)

RECURSIVE sortKeys(_, _)
RECURSIVE SortElements(_, _)
RECURSIVE SortMembers(_, _, _)
\* obj.map(this.sortKeys): every element goes to sortKeys with no `this`
SortElements(items, i) ==
  IF i > Len(items) THEN [threw |-> FALSE, value |-> <<>>]
  ELSE LET head == sortKeys(items[i], FALSE)
           rest == SortElements(items, i + 1)
       IN IF head.threw \/ rest.threw THEN [threw |-> TRUE, value |-> <<>>]
          ELSE [threw |-> FALSE, value |-> <<head.value>> \o rest.value]

\* the forEach over the sorted keys, this.sortKeys bound to the class
SortMembers(obj, keys, sorted) ==
  IF Len(keys) = 0 THEN [threw |-> FALSE, value |-> sorted]
  ELSE LET member == sortKeys(obj.items[KeyPos(obj, keys[1])], TRUE)
       IN IF member.threw THEN [threw |-> TRUE, value |-> Undefined]
          ELSE SortMembers(obj, Tail(keys), Assign(sorted, keys[1], member.value))

sortKeys(obj, thisIsClass) ==
  IF IsArray(obj)
  THEN IF ~thisIsClass THEN [threw |-> TRUE, value |-> Undefined]
       ELSE LET mapped == SortElements(obj.items, 1)
            IN IF mapped.threw THEN [threw |-> TRUE, value |-> Undefined]
               ELSE [threw |-> FALSE, value |-> Arr(mapped.value)]
  ELSE IF obj.kind = "object"
  THEN IF Len(obj.keys) > 0 /\ ~thisIsClass THEN [threw |-> TRUE, value |-> Undefined]
       ELSE SortMembers(obj, SortedKeys(obj), Obj(<<>>, <<>>))
  ELSE [threw |-> FALSE, value |-> obj]

\* the end of format's try block, given what sortKeys did
FormatSorted(text, opts, sorted) ==
  IF sorted.threw THEN text ELSE JSONStringify(sorted.value, opts.indent)

\* a format that returns an empty text for unparsable input
FormatParsed_EmptyOnFailure(text, opts, parsed) ==
  IF ~parsed.ok THEN <<>>
  ELSE FormatSorted(text, opts,
                    IF opts.sortKeys THEN sortKeys(parsed.val, TRUE)
                    ELSE [threw |-> FALSE, value |-> parsed.val])

\* format, given what JSON.parse did with the text
FormatParsed(text, opts, parsed) ==
  IF ~parsed.ok THEN text
  ELSE FormatSorted(text, opts,
                    IF opts.sortKeys THEN sortKeys(parsed.val, TRUE)
                    ELSE [threw |-> FALSE, value |-> parsed.val])

format(text, opts) == FormatParsed(text, opts, JSONParse(text))

\* minify, given what JSON.parse did with the text
MinifyParsed(text, parsed) == IF parsed.ok THEN JSONStringify(parsed.val, 0) ELSE text

minify(text) == MinifyParsed(text, JSONParse(text))

RECURSIVE count(_)
RECURSIVE CountAll(_, _)
NoStats == [objects |-> 0, arrays |-> 0, primitives |-> 0]

AddStats(a, b) ==
  [objects |-> a.objects + b.objects, arrays |-> a.arrays + b.arrays,
   primitives |-> a.primitives + b.primitives]

\* items.forEach(count)
CountAll(items, i) ==
  IF i > Len(items) THEN NoStats ELSE AddStats(count(items[i]), CountAll(items, i + 1))

count(item) ==
  IF IsArray(item)
  THEN AddStats([NoStats EXCEPT !.arrays = 1], CountAll(item.items, 1))
  ELSE IF item.kind = "object"
  THEN AddStats([NoStats EXCEPT !.objects = 1], CountAll(item.items, 1))
  ELSE [NoStats EXCEPT !.primitives = 1]

\* getStats that looks at the root only
getStats_RootOnly(obj) ==
  IF IsArray(obj) THEN [NoStats EXCEPT !.arrays = 1]
  ELSE IF obj.kind = "object" THEN [NoStats EXCEPT !.objects = 1]
  ELSE [NoStats EXCEPT !.primitives = 1]

getStats(obj) == count(obj)

StatsRecord(size, formattedSize, counted) ==
  [size |-> size, formattedSize |-> formattedSize, objects |-> counted.objects,
   arrays |-> counted.arrays, primitives |-> counted.primitives]

\* the record process returns for a text that does not parse
InvalidResult(text, validation) ==
  [formatted |-> text, minified |-> text, validation |-> validation,
   stats |-> StatsRecord(Len(text), Len(text), NoStats)]

\* the record process returns for a text that parses
ValidResult(text, validation, formatted, minified, counted) ==
  [formatted |-> formatted, minified |-> minified, validation |-> validation,
   stats |-> StatsRecord(Len(text), Len(formatted), counted)]

\* process that reports no formatted size for unparsable input
process_NoSizeOnFailure(text, opts, validation) ==
  IF ~validation.valid
  THEN [formatted |-> text, minified |-> text, validation |-> validation,
        stats |-> StatsRecord(Len(text), 0, NoStats)]
  ELSE ValidResult(text, validation,
                   IF opts.removeWhitespace THEN minify(text) ELSE format(text, opts),
                   minify(text), getStats(JSONParse(text).val))

\* process, given what its call of validate returned
process(text, opts, validation) ==
  IF ~validation.valid
  THEN InvalidResult(text, validation)
  ELSE ValidResult(text, validation,
                   IF opts.removeWhitespace THEN minify(text) ELSE format(text, opts),
                   minify(text), getStats(JSONParse(text).val))

(***************************************************************************)
(* XML rendering                                                           *)
(***************************************************************************)
RECURSIVE ReplaceAll(_, _, _)
\* s.replace(/c/g, by) for a one-character pattern
ReplaceAll(s, c, by) ==
  IF Len(s) = 0 THEN <<>>
  ELSE (IF s[1] = c THEN by ELSE <<s[1]>>) \o ReplaceAll(Tail(s), c, by)

EscapeXML(s) ==
  ReplaceAll(ReplaceAll(ReplaceAll(ReplaceAll(ReplaceAll(s,
    "&", <<"&","a","m","p",";">>),
    "<", <<"&","l","t",";">>),
    ">", <<"&","g","t",";">>),
    QUOTE, <<"&","q","u","o","t",";">>),
    "'", <<"&","a","p","o","s",";">>)

\* an element that ignores the indentation it is given
Element_Unindented(indent, nodeName, body) ==
  <<"<">> \o nodeName \o <<">">> \o body \o <<"<", "/">> \o nodeName \o <<">">>

Element(indent, nodeName, body) ==
  indent \o <<"<">> \o nodeName \o <<">">> \o body \o <<"<", "/">> \o nodeName \o <<">">>

RECURSIVE convertToXML(_, _, _)
convertToXML(obj, nodeName, indent) ==
  LET nextIndent == indent \o <<" ", " ">>
  IN CASE obj.kind = "null" ->
            indent \o <<"<">> \o nodeName
            \o <<" ","x","s","i",":","n","i","l","=",QUOTE,"t","r","u","e",QUOTE," ","/",">">>
       [] obj.kind = "string" -> Element(indent, nodeName, EscapeXML(obj.str))
       [] obj.kind \in {"number", "boolean"} -> Element(indent, nodeName, ToStringJS(obj))
       [] obj.kind = "array" ->
            Join([i \in 1..Len(obj.items) |-> convertToXML(obj.items[i], nodeName, indent)],
                 <<NL>>)
       [] obj.kind = "object" ->
            LET isAttr(i) == Len(obj.keys[i]) > 0 /\ obj.keys[i][1] = "@"
                a == SelectIndices(Len(obj.keys), isAttr)
                c == SelectIndices(Len(obj.keys), LAMBDA i : ~isAttr(i))
                attrs == [j \in 1..Len(a) |->
                            Tail(obj.keys[a[j]]) \o <<"=", QUOTE>>
                            \o ToStringJS(obj.items[a[j]]) \o <<QUOTE>>]
                children == [j \in 1..Len(c) |->
                               convertToXML(obj.items[c[j]], obj.keys[c[j]], nextIndent)]
                attrString == IF Len(attrs) > 0 THEN <<" ">> \o Join(attrs, <<" ">>) ELSE <<>>
            IN IF Len(children) = 0
               THEN indent \o <<"<">> \o nodeName \o attrString \o <<" ", "/", ">">>
               ELSE indent \o <<"<">> \o nodeName \o attrString \o <<">", NL>>
                    \o Join(children, <<NL>>) \o <<NL>> \o indent
                    \o <<"<", "/">> \o nodeName \o <<">">>
       [] OTHER -> Element(indent, nodeName, ToStringJS(obj))

toXML(text) ==
  LET parsed == JSONParse(text)
  IN IF parsed.ok THEN Returned(convertToXML(parsed.val, <<"r","o","o","t">>, <<>>))
     ELSE Thrown(MsgInvalidJSONFormat)

(***************************************************************************)
(* Bounds of the inputs                                                    *)
(***************************************************************************)
MaxArrayLen == 2
MaxSegments == 2
MaxIndex == 2

DefaultOptions == [indent |-> 2, sortKeys |-> FALSE, removeWhitespace |-> FALSE]

(***************************************************************************)
(* The App component as it is mounted: the initial values of its useState  *)
(* calls, and no AIService call in flight.  aiFix holds what the pending   *)
(* handleAiFix call closed over, the input and options of the render in    *)
(* which the button was clicked.                                           *)
(***************************************************************************)
NoCall == [pending |-> FALSE, input |-> <<>>, options |-> DefaultOptions]

Mounted ==
  /\ input = <<>>
  /\ compareInput = <<>>
  /\ output = <<>>
  /\ error = <<>>
  /\ isProcessing = FALSE
  /\ stats = Null
  /\ aiSuggestion = <<>>
  /\ isAiFixing = FALSE
  /\ activeTool = "format"
  /\ jsonPathQuery = <<>>
  /\ queryResults = <<>>
  /\ aiFix = NoCall
  /\ aiSuggest = 0

SeqsUpTo(S, n) == UNION {[1..k -> S] : k \in 0..n}

(***************************************************************************)
(* The path-query inputs: documents that hold arrays at depth 0 to 2, and  *)
(* queries made of up to MaxSegments segments and an optional bracket.     *)
(***************************************************************************)
QueryElements == {Num(1), Str(<<"x">>)}

QueryLeaves == {Null} \cup QueryElements \cup {Arr(a) : a \in SeqsUpTo(QueryElements, MaxArrayLen)}

QueryKeys == {<<"a">>, <<"$">>, <<>>, <<"0">>}

Wrap(S) == {Obj(<<k>>, <<v>>) : k \in QueryKeys, v \in S}

QueryDocs ==
  QueryLeaves \cup Wrap(QueryLeaves) \cup Wrap(Wrap(QueryLeaves))
  \cup {Arr(<<v>>) : v \in QueryLeaves}

QueryTexts == {JSONStringify(v, 0) : v \in QueryDocs}

QuerySegments == QueryKeys \cup {KeyLength}

QueryPaths == {Join(segs, <<".">>) : segs \in SeqsUpTo(QuerySegments, MaxSegments)}

IndexSuffix(i) == <<"[">> \o NatToString(i) \o <<"]">>

QuerySuffixes == {<<>>, <<"[", "*", "]">>} \cup {IndexSuffix(i) : i \in 0..MaxIndex}

Queries == {p \o s : p \in QueryPaths, s \in QuerySuffixes}

InitQuery ==
  /\ jsonString \in QueryTexts
  /\ json2 = <<>>
  /\ query \in Queries
  /\ options = DefaultOptions
  /\ op = "none"
  /\ result = <<>>
  /\ Mounted

(***************************************************************************)
(* The diff inputs: scalars, flat arrays and objects, and objects holding  *)
(* one of those under a single key; the objects list their keys in either  *)
(* insertion order. A few longer arrays are two-element arrays with an     *)
(* element inserted in the middle.                                         *)
(***************************************************************************)
DiffScalars == {Null, Num(1), Str(<<"-", " ">>)}

DiffKeyNames == {<<"a">>, <<"b">>}

FlatObjects(S) ==
  {Obj(<<>>, <<>>)}
  \cup {Obj(<<k>>, <<v>>) : k \in DiffKeyNames, v \in S}
  \cup {Obj(kp, <<v1, v2>>) :
          kp \in {x \in DiffKeyNames \X DiffKeyNames : x[1] # x[2]}, v1 \in S, v2 \in S}

DiffComposites ==
  {Arr(a) : a \in SeqsUpTo(DiffScalars, MaxArrayLen)} \cup FlatObjects(DiffScalars)

\* two-element arrays with one more element put in the middle
DiffInsertions ==
  {Arr(<<a[1], x, a[2]>>) : a \in {Null, Num(1)} \X {Null, Num(1)},
                            x \in {Num(1), Str(<<"-", " ">>)}}

DiffDocs ==
  DiffScalars \cup DiffComposites
  \cup {Obj(<<k>>, <<v>>) : k \in DiffKeyNames, v \in DiffComposites}
  \cup {Obj(<<<<"a">>>>, <<v>>) : v \in DiffInsertions}

DiffTexts == {JSONStringify(v, 0) : v \in DiffDocs}

InitDiff ==
  /\ jsonString \in DiffTexts
  /\ json2 \in DiffTexts
  /\ query = <<>>
  /\ options = DefaultOptions
  /\ op = "none"
  /\ result = <<>>
  /\ Mounted

(***************************************************************************)
(* The schema inputs: a schema node takes each keyword from a few options  *)
(* (Undefined: the keyword is left out); the data are scalars, flat arrays *)
(* and flat objects.                                                       *)
(***************************************************************************)
KeyId == <<"i", "d">>

\* the object with the given keys and values, without the Undefined ones
ObjectOf(ks, vs) ==
  LET idx == SelectIndices(Len(ks), LAMBDA i : vs[i].kind # "undefined")
  IN Obj([j \in 1..Len(idx) |-> ks[idx[j]]], [j \in 1..Len(idx) |-> vs[idx[j]]])

SubSchemas ==
  {Obj(<<>>, <<>>), Obj(<<KeyType>>, <<Str(<<"n","u","m","b","e","r">>)>>),
   Obj(<<KeyRequired>>, <<Bool(TRUE)>>), Null}

SchemaTypeOptions ==
  {Undefined, Str(<<"o","b","j","e","c","t">>), Str(<<"a","r","r","a","y">>),
   Str(<<"n","u","m","b","e","r">>)}

SchemaPropertiesOptions == {Undefined} \cup {Obj(<<KeyId>>, <<sub>>) : sub \in SubSchemas}

SchemaItemsOptions == {Undefined, Obj(<<KeyType>>, <<Str(<<"n","u","m","b","e","r">>)>>)}

SchemaRequiredOptions ==
  {Undefined, Arr(<<>>), Arr(<<Str(KeyId)>>), Arr(<<Str(KeyId), Str(<<"a">>)>>),
   Arr(<<Str(KeyValueOf)>>), Bool(TRUE)}

SchemaEnumOptions == {Undefined, Arr(<<Num(1)>>), Arr(<<Arr(<<Num(1)>>)>>)}

SchemaMinimumOptions == {Undefined, Num(2)}

\* a schema whose item schema has other keywords next to its type
SchemaNested ==
  {Obj(<<KeyItems, KeyEnum>>,
       <<Obj(<<KeyType, KeyEnum, KeyMinimum>>,
             <<Str(<<"s","t","r","i","n","g">>), Arr(<<Str(<<"y">>)>>), Num(2)>>),
         Arr(<<Num(1)>>)>>)}

\* a schema that declares a property named like a member every object inherits
SchemaInherited ==
  {Obj(<<KeyProperties>>, <<Obj(<<KeyValueOf>>, <<Obj(<<KeyRequired>>, <<Bool(TRUE)>>)>>)>>)}

SchemaDocs ==
  {Null, Bool(TRUE), Num(1), Arr(<<>>)} \cup SchemaNested \cup SchemaInherited
  \cup {ObjectOf(<<KeyType, KeyProperties, KeyItems, KeyRequired, KeyEnum, KeyMinimum>>,
                 <<t, pr, it, rq, en, mn>>) :
          t \in SchemaTypeOptions, pr \in SchemaPropertiesOptions, it \in SchemaItemsOptions,
          rq \in SchemaRequiredOptions, en \in SchemaEnumOptions, mn \in SchemaMinimumOptions}

SchemaTexts == {JSONStringify(v, 0) : v \in SchemaDocs}

DataElements == {Num(1), Str(<<"x">>)}

DataDocs ==
  {Null, Num(1), Num(3), Str(<<"x">>)}
  \cup {Arr(a) : a \in SeqsUpTo(DataElements, MaxArrayLen)}
  \cup {ObjectOf(<<KeyId, <<"a">>, KeyValueOf>>, <<v, w, x>>) :
          v \in DataElements \cup {Undefined}, w \in DataElements \cup {Undefined},
          x \in {Undefined, Num(1)}}

DataTexts == {JSONStringify(v, 0) : v \in DataDocs}

\* json2 holds the schema text
InitSchema ==
  /\ jsonString \in DataTexts
  /\ json2 \in SchemaTexts
  /\ query = <<>>
  /\ options = DefaultOptions
  /\ op = "none"
  /\ result = <<>>
  /\ Mounted

(***************************************************************************)
(* The texts of the parser: compact and indented serializations of small   *)
(* documents, and what remains of them when they are cut short or get a    *)
(* stray bracket.                                                          *)
(***************************************************************************)
TextScalars == {Null, Bool(TRUE), Num(10), Str(<<"x">>)}

TextComposites ==
  {Arr(a) : a \in SeqsUpTo(DataElements, MaxArrayLen)} \cup FlatObjects(DataElements)

TextDocs ==
  TextScalars \cup TextComposites
  \cup {Obj(<<k>>, <<v>>) : k \in DiffKeyNames, v \in TextComposites}

ValidTexts == {JSONStringify(v, 0) : v \in TextDocs} \cup {JSONStringify(v, 2) : v \in TextDocs}

Prefixes(t) == {SubSeq(t, 1, n) : n \in 0..(Len(t) - 1)}

WithStray(t) == {InsertAt(t, i, "]") : i \in 1..(Len(t) + 1)}

ParserTexts ==
  ValidTexts \cup UNION {Prefixes(t) : t \in ValidTexts} \cup UNION {WithStray(t) : t \in ValidTexts}

InitParse ==
  /\ jsonString \in ParserTexts
  /\ json2 = <<>>
  /\ query = <<>>
  /\ options = DefaultOptions
  /\ op = "none"
  /\ result = <<>>
  /\ Mounted

(***************************************************************************)
(* The formatter inputs: scalars, flat arrays and objects whose keys are   *)
(* written out of order, those nested once in an object or an array, and   *)
(* a few documents with index keys, a __proto__ key and deeper nesting.    *)
(* Each document is written compactly and indented, and cut short.         *)
(***************************************************************************)
FormatScalars == {Num(1), Str(<<"x">>)}

FormatObjects(S) ==
  {Obj(<<>>, <<>>)}
  \cup {Obj(<<<<"a">>>>, <<v>>) : v \in S}
  \cup {Obj(<<<<"b">>, <<"a">>>>, <<v1, v2>>) : v1 \in S, v2 \in S}

FormatFlat ==
  {Arr(a) : a \in SeqsUpTo(FormatScalars, MaxArrayLen)} \cup FormatObjects(FormatScalars)

FormatSpecial ==
  {Obj(<<<<"1","0">>, <<"9">>>>, <<Num(1), Num(2)>>),
   Obj(<<<<"b">>, KeyProto, <<"a">>>>, <<Num(1), Num(2), Num(3)>>),
   Obj(<<<<"a">>>>, <<Arr(<<Num(1), Num(2), Obj(<<<<"b">>>>, <<Num(3)>>)>>)>>)}

FormatDocs ==
  FormatScalars \cup FormatFlat \cup FormatSpecial
  \cup {Obj(<<<<"b">>, <<"a">>>>, <<v, Num(1)>>) : v \in FormatFlat}
  \cup {Arr(<<v>>) : v \in FormatFlat}

FormatValidTexts ==
  {JSONStringify(v, 0) : v \in FormatDocs} \cup {JSONStringify(v, 2) : v \in FormatDocs}

FormatTexts ==
  FormatValidTexts \cup {SubSeq(t, 1, Len(t) - 1) : t \in {JSONStringify(v, 0) : v \in FormatDocs}}

FormatOptions ==
  [indent : {0, 2}, sortKeys : BOOLEAN, removeWhitespace : BOOLEAN]

InitFormat ==
  /\ jsonString \in FormatTexts
  /\ json2 = <<>>
  /\ query = <<>>
  /\ options \in FormatOptions
  /\ op = "none"
  /\ result = <<>>
  /\ Mounted

(***************************************************************************)
(* The XML inputs: scalars, flat arrays, and objects of one or two keys,   *)
(* attribute keys (@id) and element keys, whose values are scalars, flat   *)
(* arrays or small objects.                                                *)
(***************************************************************************)
KeyAtId == <<"@","i","d">>
KeyName == <<"n","a","m","e">>

XmlScalars == {Null, Num(1), Str(<<"1">>), Str(<<"x">>)}

XmlKeys == {KeyAtId, KeyName, <<"a">>}

XmlArrays == {Arr(a) : a \in SeqsUpTo({Num(1), Str(<<"x">>)}, MaxArrayLen)}

XmlInner ==
  {Obj(<<>>, <<>>), Obj(<<KeyAtId>>, <<Num(1)>>), Obj(<<KeyName>>, <<Str(<<"x">>)>>)}

XmlValues == XmlScalars \cup XmlArrays \cup XmlInner

XmlDocs ==
  XmlValues
  \cup {Obj(<<k>>, <<v>>) : k \in XmlKeys, v \in XmlValues}
  \cup {Obj(kp, <<v1, v2>>) :
          kp \in {x \in XmlKeys \X XmlKeys : x[1] # x[2]}, v1 \in XmlValues, v2 \in XmlValues}

XmlTexts ==
  {JSONStringify(v, 0) : v \in XmlDocs} \cup {<<>>, <<"{">>, <<"[", "1", ",", "]">>}

InitXML ==
  /\ jsonString \in XmlTexts
  /\ json2 = <<>>
  /\ query = <<>>
  /\ options = DefaultOptions
  /\ op = "none"
  /\ result = <<>>
  /\ Mounted

(***************************************************************************)
(* The inputs of the whole toolkit: a few texts, parsable or not, for      *)
(* either argument of every operation.                                     *)
(***************************************************************************)
ToolkitDocs ==
  {Num(1), Arr(<<Num(1), Str(<<"x">>)>>), Obj(<<>>, <<>>),
   Obj(<<<<"a">>>>, <<Arr(<<Num(1)>>)>>),
   Obj(<<KeyType>>, <<Str(<<"a","r","r","a","y">>)>>),
   Obj(<<<<"@", "a">>, <<"b">>>>, <<Str(<<"x">>), Null>>)}

ToolkitValidTexts == {JSONStringify(v, 0) : v \in ToolkitDocs}

ToolkitTexts ==
  ToolkitValidTexts
  \cup {SubSeq(t, 1, Len(t) - 1) : t \in ToolkitValidTexts}
  \cup {t \o <<NL, "}">> : t \in ToolkitValidTexts}

ToolkitQueries == {<<>>, <<"a">>, <<"a", "[", "0", "]">>, <<"a", "[", "*", "]">>}

Init ==
  /\ jsonString \in ToolkitTexts
  /\ json2 \in ToolkitTexts
  /\ query \in ToolkitQueries
  /\ options = DefaultOptions
  /\ op = "none"
  /\ result = <<>>
  /\ Mounted

(***************************************************************************)
(* Operations                                                              *)
(***************************************************************************)
QueryJSON ==
  /\ op = "none"
  /\ op' = "queryJSON"
  /\ result' = queryJSON(jsonString, query)
  /\ UNCHANGED <<jsonString, json2, query, options, appVars>>

NextQuery == QueryJSON

SpecQuery == InitQuery /\ [][NextQuery]_vars

CompareJSON ==
  /\ op = "none"
  /\ op' = "compareJSON"
  /\ result' = compareJSON(jsonString, json2)
  /\ UNCHANGED <<jsonString, json2, query, options, appVars>>

NextDiff == CompareJSON

SpecDiff == InitDiff /\ [][NextDiff]_vars

ValidateSchema ==
  /\ op = "none"
  /\ op' = "validateSchema"
  /\ result' = validateSchema(jsonString, json2)
  /\ UNCHANGED <<jsonString, json2, query, options, appVars>>

NextSchema == ValidateSchema

SpecSchema == InitSchema /\ [][NextSchema]_vars

\* whether the engine's message names the offset is the engine's choice
Validate ==
  /\ op = "none"
  /\ op' = "validate"
  /\ \E reportsPosition \in BOOLEAN :
       result' = Returned(validate(jsonString, reportsPosition))
  /\ UNCHANGED <<jsonString, json2, query, options, appVars>>

ToXML ==
  /\ op = "none"
  /\ op' = "toXML"
  /\ result' = toXML(jsonString)
  /\ UNCHANGED <<jsonString, json2, query, options, appVars>>

Format ==
  /\ op = "none"
  /\ op' = "format"
  /\ result' = Returned(format(jsonString, options))
  /\ UNCHANGED <<jsonString, json2, query, options, appVars>>

Minify ==
  /\ op = "none"
  /\ op' = "minify"
  /\ result' = Returned(minify(jsonString))
  /\ UNCHANGED <<jsonString, json2, query, options, appVars>>

Process ==
  /\ op = "none"
  /\ op' = "process"
  /\ \E reportsPosition \in BOOLEAN :
       result' = Returned(process(jsonString, options, validate(jsonString, reportsPosition)))
  /\ UNCHANGED <<jsonString, json2, query, options, appVars>>

NextFormat == Format \/ Minify \/ Process

SpecFormat == InitFormat /\ [][NextFormat]_vars

NextXML == ToXML

SpecXML == InitXML /\ [][NextXML]_vars

NextParse == Validate

SpecParse == InitParse /\ [][NextParse]_vars

Next ==
  \/ Validate \/ Format \/ Minify \/ Process
  \/ CompareJSON \/ QueryJSON \/ ValidateSchema \/ ToXML

Spec == Init /\ [][Next]_vars

(***************************************************************************)
(* The App component.  An event handler runs with the state of the render  *)
(* in which its control was drawn; the setters it calls take effect        *)
(* together when it returns.  The continuation of an async handler still   *)
(* runs with the values of the render of the click.                        *)
(***************************************************************************)
MsgInvalidJSON == <<"I","n","v","a","l","i","d"," ","J","S","O","N">>
MsgAIFixUnavailable == <<"A","I"," ","f","i","x"," ","u","n","a","v","a","i","l","a","b","l","e">>
MsgFixedSyntaxError == <<"F","i","x","e","d"," ","J","S","O","N"," ","s","y","n","t","a","x"," ","e","r","r","o","r">>
MsgSuggestionsUnavailable == <<"A","I"," ","s","u","g","g","e","s","t","i","o","n","s"," ","t","e","m","p","o","r","a","r","i","l","y"," ","u","n","a","v","a","i","l","a","b","l","e">>

\* s.trim()
trim(s) == TrimRight(TrimLeft(s))

\* a reply of the remote service: it fails (no key, network) or answers a text
NoReply == [ok |-> FALSE, text |-> <<>>]
Reply(text) == [ok |-> TRUE, text |-> text]

\* line.trim().startsWith('{') || line.trim().startsWith('[')
StartsJSON(line) == Len(trim(line)) > 0 /\ trim(line)[1] \in {"{", "["}

\* lines.find(p) || otherwise
FindLine(lines, otherwise) ==
  IF \E i \in 1..Len(lines) : StartsJSON(lines[i])
  THEN lines[CHOOSE i \in 1..Len(lines) :
               StartsJSON(lines[i]) /\ \A j \in 1..(i - 1) : ~StartsJSON(lines[j])]
  ELSE otherwise

\* lines.filter(line => !starts JSON && line.trim().length > 0).join(' ')
ExplanationOf(lines) ==
  LET kept == SelectIndices(Len(lines), LAMBDA i : ~StartsJSON(lines[i]) /\ Len(trim(lines[i])) > 0)
  IN Join([j \in 1..Len(kept) |-> lines[kept[j]]], <<" ">>)

\* what fixJSONSyntax makes of the lines of the answer
FixFromLines(jsonText, lines, explanation) ==
  [fixed |-> FindLine(lines, jsonText),
   explanation |-> IF Len(explanation) > 0 THEN explanation ELSE MsgFixedSyntaxError]

\* what AIService.fixJSONSyntax resolves to, given the reply of the service
fixJSONSyntax(jsonText, reply) ==
  IF ~reply.ok THEN [fixed |-> jsonText, explanation |-> MsgAIFixUnavailable]
  ELSE FixFromLines(jsonText, Split(reply.text, NL), ExplanationOf(Split(reply.text, NL)))

\* the explanation AIService.suggestStructure resolves to
suggestStructure(reply) == IF reply.ok THEN reply.text ELSE MsgSuggestionsUnavailable

\* what processJSON sets from the result of JSONProcessor.process
Processed(r) ==
  [output |-> r.formatted,
   stats |-> r.stats,
   error |-> IF r.validation.valid THEN <<>>
             ELSE IF Len(r.validation.error) > 0 THEN r.validation.error
             ELSE MsgInvalidJSON]

\* the setters processJSON calls, for what it made of the result
SetProcessed(p) ==
  /\ output' = p.output
  /\ stats' = p.stats
  /\ error' = p.error
  /\ isProcessing' = FALSE

\* processJSON of a render whose input and options are `text` and `opts`
processJSON(text, opts, reportsPosition) ==
  IF Len(trim(text)) = 0
  THEN UNCHANGED <<output, stats, error, isProcessing>>
  ELSE SetProcessed(Processed(process(text, opts, validate(text, reportsPosition))))

handleFormat ==
  /\ \E reportsPosition \in BOOLEAN : processJSON(input, options, reportsPosition)
  /\ UNCHANGED <<input, compareInput, aiSuggestion, isAiFixing, activeTool, jsonPathQuery,
                 queryResults, aiFix, aiSuggest, options>>

handleMinify ==
  /\ output' = minify(input)
  /\ UNCHANGED <<input, compareInput, error, isProcessing, stats, aiSuggestion, isAiFixing,
                 activeTool, jsonPathQuery, queryResults, aiFix, aiSuggest, options>>

\* handleAiFix up to its await: the call is in flight with the input and the
\* processJSON of this render
handleAiFix ==
  /\ IF Len(error) = 0
     THEN UNCHANGED <<isAiFixing, aiFix>>
     ELSE /\ isAiFixing' = TRUE
          /\ aiFix' = [pending |-> TRUE, input |-> input, options |-> options]
  /\ UNCHANGED <<input, compareInput, output, error, isProcessing, stats, aiSuggestion,
                 activeTool, jsonPathQuery, queryResults, aiSuggest, options>>

\* handleAiSuggest up to its await
handleAiSuggest ==
  /\ aiSuggest' = IF stats = Null THEN aiSuggest ELSE aiSuggest + 1
  /\ UNCHANGED <<input, compareInput, output, error, isProcessing, stats, aiSuggestion,
                 isAiFixing, activeTool, jsonPathQuery, queryResults, aiFix, options>>

clearInput ==
  /\ input' = <<>>
  /\ compareInput' = <<>>
  /\ output' = <<>>
  /\ error' = <<>>
  /\ stats' = Null
  /\ aiSuggestion' = <<>>
  /\ queryResults' = <<>>
  /\ jsonPathQuery' = <<>>
  /\ UNCHANGED <<isProcessing, isAiFixing, activeTool, aiFix, aiSuggest, options>>

handleBeautifyToggle ==
  /\ options' = [options EXCEPT !.removeWhitespace = ~options.removeWhitespace]
  /\ UNCHANGED appVars

\* a handler of the three other tools, given what the processor call did: an
\* exception sets the error, a result sets the output and shows the tool
ShowTool(outcome, text, tool) ==
  /\ isProcessing' = FALSE
  /\ IF outcome.threw
     THEN error' = outcome.error /\ UNCHANGED <<output, activeTool>>
     ELSE error' = <<>> /\ output' = text /\ activeTool' = tool

ShowXML(outcome) == ShowTool(outcome, IF outcome.threw THEN <<>> ELSE outcome.value, "xml")

handleXMLConvert ==
  /\ ShowXML(toXML(input))
  /\ UNCHANGED <<input, compareInput, stats, aiSuggestion, isAiFixing, jsonPathQuery,
                 queryResults, aiFix, aiSuggest, options>>

ShowDiff(outcome) ==
  ShowTool(outcome, IF outcome.threw THEN <<>> ELSE outcome.value.diff, "compare")

handleCompare ==
  /\ ShowDiff(compareJSON(input, compareInput))
  /\ UNCHANGED <<input, compareInput, stats, aiSuggestion, isAiFixing, jsonPathQuery,
                 queryResults, aiFix, aiSuggest, options>>

ShowResults(outcome) ==
  /\ ShowTool(outcome,
              IF outcome.threw THEN <<>> ELSE JSONStringify(Arr(outcome.value), 2), "query")
  /\ queryResults' = IF outcome.threw THEN queryResults ELSE outcome.value

handleQuery ==
  /\ ShowResults(queryJSON(input, jsonPathQuery))
  /\ UNCHANGED <<input, compareInput, stats, aiSuggestion, isAiFixing, jsonPathQuery,
                 aiFix, aiSuggest, options>>

\* the buttons that change the state, and the views that draw them
Buttons ==
  {"format", "ai", "clear", "minify", "convertXML", "compare", "query", "beautifyToggle"}

\* every button drawn whatever the tool shown
Rendered_InEveryView(control) ==
  control \in Buttons \cup {"input", "upload", "compareInput", "jsonPathQuery"}

\* the control is part of what the component returns for the current state
Rendered(control) ==
  CASE control \in {"format", "ai", "minify"} -> activeTool = "format"
    [] control \in {"clear", "upload"} -> activeTool \in {"format", "xml", "query"}
    [] control = "convertXML" -> activeTool = "xml"
    [] control \in {"compare", "compareInput"} -> activeTool = "compare"
    [] control \in {"query", "jsonPathQuery"} -> activeTool = "query"
    [] control = "input" -> activeTool \in {"format", "xml", "compare", "query"}
    [] OTHER -> TRUE

\* the disabled attribute of a button
Disabled(control) ==
  CASE control \in {"format", "minify"} -> isProcessing
    [] control = "ai" -> isAiFixing \/ (Len(error) = 0 /\ stats = Null)
    [] control = "convertXML" -> isProcessing \/ Len(trim(input)) = 0
    [] control = "compare" ->
         isProcessing \/ Len(trim(input)) = 0 \/ Len(trim(compareInput)) = 0
    [] control = "query" ->
         isProcessing \/ Len(trim(input)) = 0 \/ Len(trim(jsonPathQuery)) = 0
    [] OTHER -> FALSE

\* the onClick handler of a button
OnClick(control) ==
  CASE control = "format" -> handleFormat
    [] control = "ai" -> IF Len(error) > 0 THEN handleAiFix ELSE handleAiSuggest
    [] control = "clear" -> clearInput
    [] control = "minify" -> handleMinify
    [] control = "convertXML" -> handleXMLConvert
    [] control = "compare" -> handleCompare
    [] control = "query" -> handleQuery
    [] control = "beautifyToggle" -> handleBeautifyToggle

\* the onChange handler of a text field, for the text the user gives it; an
\* uploaded file sets the input when its text has been read
OnChangeText(field, text) ==
  CASE field \in {"input", "upload"} ->
         /\ input' = text
         /\ UNCHANGED <<compareInput, jsonPathQuery>>
    [] field = "compareInput" ->
         /\ compareInput' = text
         /\ UNCHANGED <<input, jsonPathQuery>>
    [] field = "jsonPathQuery" ->
         /\ jsonPathQuery' = text
         /\ UNCHANGED <<input, compareInput>>

\* the texts the user types or uploads, and the replies of the remote service
AppTexts == {<<"{">>, <<"[", "1", "]">>}

AiReplies == {NoReply, Reply(<<"[", "1", "]">>)}

IndentChoices == {2, 4}

MaxSuggestCalls == 1

TextFields == {"input", "upload", "compareInput", "jsonPathQuery"}

\* the user clicks a button that is drawn and not disabled
Click ==
  /\ \E control \in Buttons :
       /\ Rendered(control)
       /\ ~Disabled(control)
       /\ control = "ai" => aiSuggest < MaxSuggestCalls \/ Len(error) > 0
       /\ OnClick(control)
  /\ UNCHANGED <<jsonString, json2, query, op, result>>

\* the user changes a text field that is drawn
ChangeText ==
  /\ \E field \in TextFields, text \in AppTexts :
       Rendered(field) /\ OnChangeText(field, text)
  /\ UNCHANGED <<output, error, isProcessing, stats, aiSuggestion, isAiFixing, activeTool,
                 queryResults, aiFix, aiSuggest, options>>
  /\ UNCHANGED <<jsonString, json2, query, op, result>>

\* the user picks an indent
ChangeIndent ==
  /\ \E indent \in IndentChoices : options' = [options EXCEPT !.indent = indent]
  /\ UNCHANGED <<appVars, jsonString, json2, query, op, result>>

\* the user ticks or unticks the sort keys box
ChangeSortKeys ==
  /\ options' = [options EXCEPT !.sortKeys = ~options.sortKeys]
  /\ UNCHANGED <<appVars, jsonString, json2, query, op, result>>

\* setInput(suggestion.fixed); setAiSuggestion(suggestion.explanation)
TakeSuggestion(suggestion) ==
  /\ input' = suggestion.fixed
  /\ aiSuggestion' = suggestion.explanation

\* handleAiFix after its await: the suggestion is taken over, and the
\* processJSON of the render of the click is called
AiFixSettled ==
  /\ aiFix.pending
  /\ \E reply \in AiReplies, reportsPosition \in BOOLEAN :
       /\ TakeSuggestion(fixJSONSyntax(aiFix.input, reply))
       /\ processJSON(aiFix.input, aiFix.options, reportsPosition)
  /\ isAiFixing' = FALSE
  /\ aiFix' = NoCall
  /\ UNCHANGED <<compareInput, activeTool, jsonPathQuery, queryResults, aiSuggest, options>>
  /\ UNCHANGED <<jsonString, json2, query, op, result>>

\* handleAiSuggest after its await
AiSuggestSettled ==
  /\ aiSuggest > 0
  /\ \E reply \in AiReplies : aiSuggestion' = suggestStructure(reply)
  /\ aiSuggest' = aiSuggest - 1
  /\ UNCHANGED <<input, compareInput, output, error, isProcessing, stats, isAiFixing,
                 activeTool, jsonPathQuery, queryResults, aiFix, options>>
  /\ UNCHANGED <<jsonString, json2, query, op, result>>

InitApp ==
  /\ jsonString = <<>>
  /\ json2 = <<>>
  /\ query = <<>>
  /\ options = DefaultOptions
  /\ op = "none"
  /\ result = <<>>
  /\ Mounted

NextApp == Click \/ ChangeText \/ ChangeIndent \/ ChangeSortKeys \/ AiFixSettled \/ AiSuggestSettled

SpecApp == InitApp /\ [][NextApp]_vars

(***************************************************************************)
(* Properties of the path queries                                          *)
(***************************************************************************)
Queried == op = "queryJSON" /\ ~result.threw

Doc == JSONParse(jsonString).val

\* the prefixes p of the query with query = p \o suffix
PathsBefore(suffix) ==
  {p \in {SubSeq(query, 1, n) : n \in 0..Len(query)} : query = p \o suffix}

\* a path the query grammar hands to the dot traversal as it is written
PlainPath(p) ==
  /\ Len(p) > 0
  /\ ~MatchesAt(p, 1, <<".">>)
  /\ ~MatchesAt(p, 1, <<"$", ".">>)
  /\ \A k \in 1..Len(p) : p[k] # NL

\* C1: a numeric index at or past the end of the array the path resolves to
\* gives the empty sequence (stated for the non-empty paths that carry no
\* `.` or `$.` prefix, such as users[5]).
C1_OutOfBoundsIsEmpty ==
  Queried =>
    \A i \in 0..MaxIndex : \A p \in PathsBefore(IndexSuffix(i)) :
      LET A == getValueAtPath(Doc, p)
      IN (PlainPath(p) /\ IsArray(A) /\ i >= Len(A.items)) => result.value = <<>>

\* C2 as stated: for every path that resolves by dot traversal to an array A,
\* path[*] gives the elements of A in order and path[i] in bounds gives <<A[i]>>.
C2_AnyPath ==
  Queried =>
    /\ \A p \in PathsBefore(<<"[", "*", "]">>) :
         LET A == getValueAtPath(Doc, p)
         IN IsArray(A) => result.value = A.items
    /\ \A i \in 0..MaxIndex : \A p \in PathsBefore(IndexSuffix(i)) :
         LET A == getValueAtPath(Doc, p)
         IN (IsArray(A) /\ i < Len(A.items)) => result.value = <<A.items[i + 1]>>

\* C2 (amended): the same for a non-empty path without line terminators that
\* does not begin with `.` or `$.`.
C2_PlainPath ==
  Queried =>
    /\ \A p \in PathsBefore(<<"[", "*", "]">>) :
         LET A == getValueAtPath(Doc, p)
         IN (PlainPath(p) /\ IsArray(A)) => result.value = A.items
    /\ \A i \in 0..MaxIndex : \A p \in PathsBefore(IndexSuffix(i)) :
         LET A == getValueAtPath(Doc, p)
         IN (PlainPath(p) /\ IsArray(A) /\ i < Len(A.items))
              => result.value = <<A.items[i + 1]>>

\* an indexed query of the second element of a two-element array has answered
C2_Witness ==
  /\ Queried
  /\ \E p \in PathsBefore(IndexSuffix(1)) :
       /\ PlainPath(p)
       /\ IsArray(getValueAtPath(Doc, p))
       /\ Len(getValueAtPath(Doc, p).items) = 2
       /\ getValueAtPath(Doc, p).items[1] # getValueAtPath(Doc, p).items[2]
       /\ result.value = <<getValueAtPath(Doc, p).items[2]>>

\* C3: each of "", ".", "$" and "$." gives the whole document as the only
\* element.
C3_EmptyQueryIsDocument ==
  (Queried /\ query \in {<<>>, <<".">>, <<"$">>, <<"$", ".">>})
    => result.value = <<Doc>>

(***************************************************************************)
(* Properties of the diff                                                  *)
(***************************************************************************)
Compared == op = "compareJSON" /\ ~result.threw

Left == JSONParse(jsonString).val
Right == JSONParse(json2).val

\* the lines of the diff text: every line ends with a line break
DiffLines(diff) ==
  LET pieces == Split(diff, NL) IN SubSeq(pieces, 1, Len(pieces) - 1)

RECURSIVE LeadingSpaces(_)
LeadingSpaces(line) ==
  IF Len(line) > 0 /\ line[1] = " " THEN 1 + LeadingSpaces(Tail(line)) ELSE 0

\* the marker of a line, the two characters after its indentation: "+" for
\* an added line, "-" for a removed line, " " for an unchanged line
LineMarker(line) ==
  LET n == LeadingSpaces(line)
  IN IF MatchesAt(line, n + 1, <<"+", " ">>) THEN "+"
     ELSE IF MatchesAt(line, n + 1, <<"-", " ">>) THEN "-"
     ELSE " "

HasChangedLine(diff) ==
  \E i \in 1..Len(DiffLines(diff)) : LineMarker(DiffLines(diff)[i]) \in {"+", "-"}

\* C5: hasDifferences is true exactly when the diff has an added or a
\* removed line.
C5_HasDifferencesIffChangedLine ==
  Compared => (result.value.hasDifferences <=> HasChangedLine(result.value.diff))

\* C6: comparing a text with itself reports no differences and gives only
\* unchanged lines.
C6_SelfCompareUnchanged ==
  (Compared /\ jsonString = json2) =>
    /\ ~result.value.hasDifferences
    /\ \A i \in 1..Len(DiffLines(result.value.diff)) :
         LineMarker(DiffLines(result.value.diff)[i]) = " "

FirstLine(text) == Split(text, NL)[1]

HasLineStarting(diff, prefix) ==
  \E i \in 1..Len(DiffLines(diff)) : MatchesAt(DiffLines(diff)[i], 1, prefix)

RECURSIVE OneSidedKeysMarked(_, _, _, _)
\* every key that only one of the objects o1, o2 has is given an entry with
\* its marker, at this level and below the keys both objects have
OneSidedKeysMarked(o1, o2, indent, diff) ==
  /\ \A i \in 1..Len(o2.keys) :
       ~HasOwn(o1, o2.keys[i]) =>
         HasLineStarting(diff, Spaces(2 * indent) \o <<"+", " ", QUOTE>> \o o2.keys[i]
                                 \o <<QUOTE, ":", " ">>
                                 \o FirstLine(JSONStringify(o2.items[i], 2)))
  /\ \A i \in 1..Len(o1.keys) :
       ~HasOwn(o2, o1.keys[i]) =>
         HasLineStarting(diff, Spaces(2 * indent) \o <<"-", " ", QUOTE>> \o o1.keys[i]
                                 \o <<QUOTE, ":", " ">>
                                 \o FirstLine(JSONStringify(o1.items[i], 2)))
  /\ \A i \in 1..Len(o1.keys) :
       (/\ HasOwn(o2, o1.keys[i])
        /\ IsPlainObject(o1.items[i])
        /\ IsPlainObject(o2.items[KeyPos(o2, o1.keys[i])]))
         => OneSidedKeysMarked(o1.items[i], o2.items[KeyPos(o2, o1.keys[i])], indent + 1, diff)

SharedKeys(o1, o2) == SeqToSet(o1.keys) \cap SeqToSet(o2.keys)

\* C7: a key that only one document has gets an added or removed entry, and
\* no line with content of only one document is marked unchanged: when the
\* two objects share no key, no line at all is.
C7_OneSidedContentMarked ==
  (Compared /\ IsPlainObject(Left) /\ IsPlainObject(Right)) =>
    /\ OneSidedKeysMarked(Left, Right, 0, result.value.diff)
    /\ SharedKeys(Left, Right) = {} =>
         \A i \in 1..Len(DiffLines(result.value.diff)) :
           LineMarker(DiffLines(result.value.diff)[i]) \in {"+", "-"}

(***************************************************************************)
(* Properties of the schema validation                                     *)
(***************************************************************************)
SchemaChecked == op = "validateSchema" /\ ~result.threw

Data == JSONParse(jsonString).val
Schema == JSONParse(json2).val

BothParse == JSONParse(jsonString).ok /\ JSONParse(json2).ok

\* a schema without any keyword: nothing in it applies to any data
HasNoKeyword(schema) == schema.kind # "object" \/ Len(schema.keys) = 0

\* C8: when both texts parse, the result holds path-qualified violation
\* messages only, never the generic message of unparsable input, and data
\* that no keyword rejects is valid.
C8_NoHardFailureWhenParsable ==
  (SchemaChecked /\ BothParse) =>
    /\ \A i \in 1..Len(result.value.errors) :
         /\ result.value.errors[i] # MsgInvalidJSONOrSchema
         /\ Includes(result.value.errors[i], <<":", " ">>)
    /\ HasNoKeyword(Schema) => result.value.valid

CountOf(errors, e) == Cardinality({i \in 1..Len(errors) : errors[i] = e})

\* C9: at a node whose type check passes and that has no other keyword for
\* missing properties, every name of the `required` list that the object
\* lacks gets exactly one missing-property error, and a name it has gets none.
C9_RequiredNamesMissingOnce ==
  LET required == Member(Schema, KeyRequired)
      type == Member(Schema, KeyType)
  IN (/\ SchemaChecked /\ BothParse
      /\ IsPlainObject(Data) /\ IsPlainObject(Schema)
      /\ IsArray(required)
      /\ type.kind = "undefined" \/ type = Str(<<"o","b","j","e","c","t">>)
      /\ Member(Schema, KeyProperties).kind = "undefined")
     => \A i \in 1..Len(required.items) :
          CountOf(result.value.errors,
                  <<".">> \o required.items[i].str \o MsgRequiredMissing)
            = (IF HasOwn(Data, required.items[i].str) THEN 0 ELSE 1)

(***************************************************************************)
(* Properties of the failure on unparsable input                           *)
(***************************************************************************)
Parses(text) == JSONParse(text).ok

\* C4: on a text that does not parse, compareJSON (either argument),
\* queryJSON and toXML throw an Error with their fixed message and return
\* nothing, and validateSchema (either argument) returns valid = false with
\* the one generic error.
C4_UnparsableInputFails ==
  /\ (op = "compareJSON" /\ (~Parses(jsonString) \/ ~Parses(json2)))
       => result = Thrown(MsgInvalidJSONInputs)
  /\ (op \in {"queryJSON", "toXML"} /\ ~Parses(jsonString))
       => result = Thrown(MsgInvalidJSONFormat)
  /\ (op = "validateSchema" /\ (~Parses(jsonString) \/ ~Parses(json2)))
       => result = Returned([valid |-> FALSE, errors |-> <<MsgInvalidJSONOrSchema>>])

\* compareJSON has failed on a second text that does not parse
C4_Witness ==
  /\ op = "compareJSON"
  /\ Parses(jsonString) /\ ~Parses(json2)
  /\ result.threw

(***************************************************************************)
(* Properties of validate                                                  *)
(***************************************************************************)
NewlinesBefore(text, p) == Cardinality({i \in 1..Min(p, Len(text)) : text[i] = NL})

\* the number of characters between the last line break before offset p and p
CharsSinceNewline(text, p) ==
  LET q == Min(p, Len(text))
      breaks == {i \in 1..q : text[i] = NL}
  IN IF breaks = {} THEN q
     ELSE q - (CHOOSE i \in breaks : \A j \in breaks : j <= i)

C11_UnparsableTextUnchanged ==
  op \in {"format", "minify"} =>
    /\ ~result.threw
    /\ ~Parses(jsonString) => result.value = jsonString

\* format has handed back a non-empty text that does not parse
C11_Witness ==
  /\ op = "format"
  /\ ~Parses(jsonString)
  /\ Len(jsonString) > 0
  /\ result.value = jsonString

\* the keys of every object of v, at every depth, ascend in code-unit order
RECURSIVE KeysAscending(_)
KeysAscending(v) ==
  /\ v.kind = "object" =>
       \A i \in 1..(Len(v.keys) - 1) : StrLess(v.keys[i], v.keys[i + 1])
  /\ \A i \in 1..Len(v.items) : KeysAscending(v.items[i])

\* v and w are the same tree but for the order in which objects list their keys
RECURSIVE SameUpToKeyOrder(_, _)
SameUpToKeyOrder(v, w) ==
  /\ v.kind = w.kind
  /\ CASE v.kind = "array" ->
            /\ Len(v.items) = Len(w.items)
            /\ \A i \in 1..Len(v.items) : SameUpToKeyOrder(v.items[i], w.items[i])
       [] v.kind = "object" ->
            /\ SeqToSet(v.keys) = SeqToSet(w.keys)
            /\ \A k \in SeqToSet(v.keys) :
                 SameUpToKeyOrder(v.items[KeyPos(v, k)], w.items[KeyPos(w, k)])
       [] OTHER -> v = w

\* C12: for a text that parses, format with sortKeys returns a serialization
\* of the document in which the keys of every object, at every depth and
\* inside arrays too, ascend, and every array keeps its element order.
C12_SortKeysSortsEveryObject ==
  (op = "format" /\ options.sortKeys /\ Parses(jsonString)) =>
    LET out == JSONParse(result.value)
    IN /\ out.ok
       /\ KeysAscending(out.val)
       /\ SameUpToKeyOrder(out.val, Doc)

\* C13: format is idempotent for fixed options, on texts that parse and on
\* texts that do not.
C13_FormatIdempotent ==
  op = "format" => format(result.value, options) = result.value

\* format has sorted the keys of a document that were out of order
C13_Witness ==
  /\ op = "format"
  /\ options.sortKeys
  /\ Parses(jsonString)
  /\ ~KeysAscending(Doc)
  /\ KeysAscending(JSONParse(result.value).val)
  /\ result.value # jsonString

\* C14: on a text that does not parse, process returns the text as formatted
\* and as minified, the failing result of validate, no counted nodes, and
\* the length of the text as size and as formattedSize.
C14_ProcessOfUnparsableText ==
  (op = "process" /\ ~Parses(jsonString)) =>
    /\ ~result.threw
    /\ result.value.formatted = jsonString
    /\ result.value.minified = jsonString
    /\ ~result.value.validation.valid
    /\ \E reportsPosition \in BOOLEAN :
         result.value.validation = validate(jsonString, reportsPosition)
    /\ result.value.stats =
         [size |-> Len(jsonString), formattedSize |-> Len(jsonString),
          objects |-> 0, arrays |-> 0, primitives |-> 0]

\* process has measured a non-empty text that does not parse
C14_Witness ==
  /\ op = "process"
  /\ ~Parses(jsonString)
  /\ Len(jsonString) > 0
  /\ result.value.stats.formattedSize = Len(jsonString)
  /\ "line" \in DOMAIN result.value.validation

\* C15: on a text that parses, process returns the length of the input as
\* size and the length of formatted as formattedSize; formatted is the
\* compact serialization, equal to minified, when removeWhitespace is set,
\* and otherwise the serialization of the document spaced by the indent.
C15_ProcessSizesAndMode ==
  (op = "process" /\ Parses(jsonString)) =>
    LET r == result.value
        out == JSONParse(r.formatted)
    IN /\ r.stats.size = Len(jsonString)
       /\ r.stats.formattedSize = Len(r.formatted)
       /\ out.ok
       /\ SameUpToKeyOrder(out.val, Doc)
       /\ IF options.removeWhitespace
          THEN r.formatted = r.minified /\ r.formatted = JSONStringify(Doc, 0)
          ELSE r.formatted = JSONStringify(out.val, options.indent)

\* C16: with sortKeys set and a text that parses, formatted has the keys of
\* every object sorted, in the indented and in the compact mode.
C16_SortKeysInBothModes ==
  (op = "process" /\ Parses(jsonString) /\ options.sortKeys) =>
    LET out == JSONParse(result.value.formatted)
    IN out.ok /\ KeysAscending(out.val)

\* the nodes of v, each named by the positions that lead to it
RECURSIVE NodePaths(_)
NodePaths(v) ==
  {<<>>} \cup UNION {{<<i>> \o p : p \in NodePaths(v.items[i])} : i \in 1..Len(v.items)}

RECURSIVE NodeAt(_, _)
NodeAt(v, p) == IF Len(p) = 0 THEN v ELSE NodeAt(v.items[p[1]], Tail(p))

NodesOfKind(v, kinds) == Cardinality({p \in NodePaths(v) : NodeAt(v, p).kind \in kinds})

StatsExample ==
  Obj(<<<<"a">>>>, <<Arr(<<Num(1), Num(2), Obj(<<<<"b">>>>, <<Num(3)>>)>>)>>)

\* C17: the stats of a text that parses count every node of the document
\* once: its objects, its arrays and its null, boolean, number and string
\* nodes; {"a":[1,2,{"b":3}]} has 2 objects, 1 array and 3 primitives.
C17_StatsCountEveryNode ==
  (op = "process" /\ Parses(jsonString)) =>
    LET counted == result.value.stats
    IN /\ counted.objects = NodesOfKind(Doc, {"object"})
       /\ counted.arrays = NodesOfKind(Doc, {"array"})
       /\ counted.primitives = NodesOfKind(Doc, {"null", "boolean", "number", "string"})
       /\ counted.objects + counted.arrays + counted.primitives = Cardinality(NodePaths(Doc))
       /\ Doc = StatsExample =>
            counted.objects = 2 /\ counted.arrays = 1 /\ counted.primitives = 3

\* process has counted the nodes of {"a":[1,2,{"b":3}]}
C17_Witness ==
  /\ op = "process"
  /\ Parses(jsonString)
  /\ Doc = StatsExample
  /\ result.value.stats.objects = 2
  /\ result.value.stats.primitives = 3

(***************************************************************************)
(* Properties of the XML rendering                                         *)
(***************************************************************************)
XmlExample == Obj(<<KeyAtId, KeyName>>, <<Str(<<"1">>), Str(<<"x">>)>>)

XmlRootOpen == <<"<","r","o","o","t"," ","i","d","=",QUOTE,"1",QUOTE,">">>
XmlNameElement == <<"<","n","a","m","e",">","x","<","/","n","a","m","e",">">>
XmlRootClose == <<"<","/","r","o","o","t",">">>

IsAttributeKey(k) == Len(k) > 0 /\ k[1] = "@"

\* the attributes an object gives its element: ` name="value"` for each key
\* that begins with @, in key order
RECURSIVE AttributeText(_, _)
AttributeText(v, i) ==
  IF i > Len(v.keys) THEN <<>>
  ELSE (IF IsAttributeKey(v.keys[i])
        THEN <<" ">> \o Tail(v.keys[i]) \o <<"=", QUOTE>> \o ToStringJS(v.items[i]) \o <<QUOTE>>
        ELSE <<>>) \o AttributeText(v, i + 1)

ChildKeys(v) == {k \in SeqToSet(v.keys) : ~IsAttributeKey(k)}

\* the line opens, after exactly `indent`, an element named k
OpensElement(line, indent, k) ==
  LET tag == indent \o <<"<">> \o k
  IN /\ MatchesAt(line, 1, tag)
     /\ Len(line) > Len(tag)
     /\ line[Len(tag) + 1] \in {">", " "}

\* the root element of an object document: its attributes and its children
RootElementOf(text, v) ==
  LET lines == Split(text, NL)
      open == <<"<","r","o","o","t">> \o AttributeText(v, 1)
  IN IF ChildKeys(v) = {}
     THEN text = open \o <<" ", "/", ">">>
     ELSE /\ lines[1] = open \o <<">">>
          /\ lines[Len(lines)] = XmlRootClose
          /\ \A k \in ChildKeys(v) :
               ~IsArray(v.items[KeyPos(v, k)]) =>
                 \E i \in 2..(Len(lines) - 1) : OpensElement(lines[i], <<" ", " ">>, k)

\* C18 as stated: {"@id":"1","name":"x"} is rendered on one line as
\* <root id="1"><name>x</name></root>.
C18_OneLine ==
  (op = "toXML" /\ Parses(jsonString) /\ Doc = XmlExample) =>
    /\ ~result.threw
    /\ result.value = XmlRootOpen \o XmlNameElement \o XmlRootClose

\* C18 (amended): {"@id":"1","name":"x"} is rendered as <root id="1">, then
\* <name>x</name> on a line of its own behind two spaces, then </root> on a
\* third line; in every object document the keys that begin with @ are
\* attributes of the root element and every other key whose value is not an
\* array opens a child element of its name on a line of its own, two spaces in.
C18_IndentedLines ==
  (op = "toXML" /\ Parses(jsonString) /\ Doc.kind = "object") =>
    /\ ~result.threw
    /\ RootElementOf(result.value, Doc)
    /\ Doc = XmlExample =>
         result.value =
           XmlRootOpen \o <<NL, " ", " ">> \o XmlNameElement \o <<NL>> \o XmlRootClose

\* toXML has rendered {"@id":"1","name":"x"} on three lines
C18_Witness ==
  /\ op = "toXML"
  /\ Parses(jsonString)
  /\ Doc = XmlExample
  /\ ~result.threw
  /\ Len(Split(result.value, NL)) = 3

(***************************************************************************)
(* Properties of the dot traversal                                         *)
(***************************************************************************)
Segments == Split(query, ".")

\* the path made of the first n segments of the query
PathUpTo(n) == Join(SubSeq(Segments, 1, n), <<".">>)

\* a query that goes to the dot traversal as it is written
DotQuery ==
  /\ op = "queryJSON"
  /\ Parses(jsonString)
  /\ PlainPath(query)
  /\ ~Includes(query, <<"[">>)

\* C19: a segment of decimal digits resolves only on an array of which the
\* number is an index; in every other case the traversal is absent, and the
\* segment is never read as a property name, also not on an object that has
\* that key.
C19_DigitsOnlyIndexArrays ==
  DotQuery =>
    /\ ~result.threw
    /\ \A n \in 1..Len(Segments) :
         IsAllDigits(Segments[n]) =>
           LET current == getValueAtPath(Doc, PathUpTo(n - 1))
               here == getValueAtPath(Doc, PathUpTo(n))
               index == ParseInt(Segments[n])
           IN /\ IF IsArray(current) /\ index < Len(current.items)
                 THEN here = current.items[index + 1]
                 ELSE here = Undefined /\ result.value = <<Undefined>>
              /\ n = Len(Segments) => result.value = <<here>>

\* the query a.0 has found nothing in {"a":{"0":1}}
C19_Witness ==
  /\ DotQuery
  /\ query = <<"a", ".", "0">>
  /\ Doc = Obj(<<<<"a">>>>, <<Obj(<<<<"0">>>>, <<Num(1)>>)>>)
  /\ result = Returned(<<Undefined>>)

\* C20: a segment that is not all digits is a property lookup on an object:
\* on an array, string, number, boolean or null, and on an object without
\* the key, the traversal is absent whatever the segment is, and queryJSON
\* returns the one absent marker without throwing.
C20_NamesOnlyReadObjects ==
  DotQuery =>
    /\ ~result.threw
    /\ \A n \in 1..Len(Segments) :
         ~IsAllDigits(Segments[n]) =>
           LET current == getValueAtPath(Doc, PathUpTo(n - 1))
           IN (current.kind # "object" \/ ~HasOwn(current, Segments[n]))
                => result.value = <<Undefined>>

(***************************************************************************)
(* Properties of the comparison: key order and the entries of shared keys  *)
(***************************************************************************)
RECURSIVE KeySorted(_)
\* the document v with the keys of every object in ascending order
KeySorted(v) ==
  CASE v.kind = "array" -> Arr([i \in 1..Len(v.items) |-> KeySorted(v.items[i])])
    [] v.kind = "object" ->
         LET ks == SortStrings(SeqToSet(v.keys))
         IN Obj(ks, [i \in 1..Len(ks) |-> KeySorted(v.items[KeyPos(v, ks[i])])])
    [] OTHER -> v

\* C21: the diff text does not depend on the insertion order of the keys of
\* either document: it is the diff of the two documents with their keys put
\* in ascending order.
C21_DiffIgnoresKeyOrder ==
  Compared =>
    result.value.diff = generateDiff(KeySorted(Left), KeySorted(Right), 0)

IsComposite(v) == v.kind \in {"object", "array"}

UnionKeys(v1, v2) == SeqToSet(ObjectKeys(v1)) \cup SeqToSet(ObjectKeys(v2))

\* the keys both documents have a value for, with unequal values
UnequalKeys(v1, v2) ==
  {k \in UnionKeys(v1, v2) :
     /\ Member(v1, k).kind # "undefined"
     /\ Member(v2, k).kind # "undefined"
     /\ JSONStringify(Member(v1, k), 0) # JSONStringify(Member(v2, k), 0)}

\* the first line of the entry of a key of the documents: a marker, the
\* quoted key and the first line of the value
EntryStart(marker, key, val) ==
  marker \o <<QUOTE>> \o key \o <<QUOTE, ":", " ">> \o FirstLine(JSONStringify(val, 2))

\* the lines of the diff that open an entry for the key at the top level
KeyLines(lines, key) ==
  {i \in 1..Len(lines) : MatchesAt(lines[i], 3, <<QUOTE>> \o key \o <<QUOTE, ":", " ">>)}

\* the lines of the diff that open an entry for any key at the top level
EntryLines(lines) == {i \in 1..Len(lines) : MatchesAt(lines[i], 3, <<QUOTE>>)}

\* the key has a removed entry for val1 and, next after it, an added entry
\* for val2, and no other line of its own
RemovedThenAdded(lines, key, val1, val2) ==
  \E i \in KeyLines(lines, key) : \E j \in KeyLines(lines, key) :
    /\ KeyLines(lines, key) = {i, j}
    /\ i < j
    /\ lines[i] = EntryStart(<<"-", " ">>, key, val1)
    /\ lines[j] = EntryStart(<<"+", " ">>, key, val2)
    /\ \A m \in EntryLines(lines) : ~(i < m /\ m < j)

\* C22: a key with unequal values on the two sides, at least one of them a
\* scalar, gets the removed entry of the left value and right after it the
\* added entry of the right value, and no unchanged line.
C22_ScalarChangeIsRemovedThenAdded ==
  Compared =>
    \A k \in UnequalKeys(Left, Right) :
      (~IsComposite(Member(Left, k)) \/ ~IsComposite(Member(Right, k))) =>
        RemovedThenAdded(DiffLines(result.value.diff), k, Member(Left, k), Member(Right, k))

\* {"a":[1]} against {"a":null}: the array is removed over three lines, then
\* null is added
C22_Witness ==
  /\ Compared
  /\ Left = Obj(<<<<"a">>>>, <<Arr(<<Num(1)>>)>>)
  /\ Right = Obj(<<<<"a">>>>, <<Null>>)
  /\ <<"a">> \in UnequalKeys(Left, Right)
  /\ Len(DiffLines(result.value.diff)) = 4
  /\ RemovedThenAdded(DiffLines(result.value.diff), <<"a">>, Arr(<<Num(1)>>), Null)

\* the keys both documents have a value for, with equal values
EqualKeys(v1, v2) ==
  {k \in UnionKeys(v1, v2) :
     /\ Member(v1, k).kind # "undefined"
     /\ Member(v2, k).kind # "undefined"
     /\ JSONStringify(Member(v1, k), 0) = JSONStringify(Member(v2, k), 0)}

\* the unmarked line that opens the block of a key, and the one that closes it
BlockOpen(indent, key) == Spaces(2 * indent + 2) \o <<QUOTE>> \o key \o <<QUOTE, ":", " ", "{">>
BlockClose(indent) == Spaces(2 * indent + 2) \o <<"}">>

\* the number of members of a composite value
MemberCount(v) == IF v.kind = "array" THEN Len(v.items) ELSE Len(v.keys)

\* from line i on, the diff has a block for the key: its opening line, at
\* least one unmarked line for each member and nothing marked, its closing line
HasUnmarkedBlock(lines, i, key, val) ==
  /\ lines[i] = BlockOpen(0, key)
  /\ \E j \in (i + 1)..Len(lines) :
       /\ lines[j] = BlockClose(0)
       /\ j - i - 1 >= MemberCount(val)
       /\ \A m \in (i + 1)..(j - 1) : LineMarker(lines[m]) = " " /\ LeadingSpaces(lines[m]) >= 4

\* C23 as stated: a key with equal composite values on the two sides, Objects
\* or Arrays, is rendered as an unmarked "key": { ... } block with an
\* unchanged line for every member.
C23_EqualCompositesAreBlocks ==
  Compared =>
    \A k \in EqualKeys(Left, Right) :
      IsComposite(Member(Left, k)) =>
        \E i \in KeyLines(DiffLines(result.value.diff), k) :
          HasUnmarkedBlock(DiffLines(result.value.diff), i, k, Member(Left, k))

RECURSIVE UnchangedLines(_, _, _)
RECURSIVE UnchangedMembers(_, _, _)
\* the unchanged lines of a key: an Object is a block with the lines of its
\* members in ascending key order, any other value is one line with its
\* compact JSON text
UnchangedLines(key, val, indent) ==
  IF IsPlainObject(val)
  THEN <<BlockOpen(indent, key)>>
       \o UnchangedMembers(val, SortStrings(SeqToSet(val.keys)), indent + 1)
       \o <<BlockClose(indent)>>
  ELSE <<Spaces(2 * indent + 2) \o <<QUOTE>> \o key \o <<QUOTE, ":", " ">>
         \o JSONStringify(val, 0)>>

UnchangedMembers(val, ks, indent) ==
  IF Len(ks) = 0 THEN <<>>
  ELSE UnchangedLines(ks[1], Member(val, ks[1]), indent)
       \o UnchangedMembers(val, Tail(ks), indent)

\* the lines are found in the diff from line i on
LinesAt(lines, i, expected) ==
  /\ i + Len(expected) - 1 <= Len(lines)
  /\ SubSeq(lines, i, i + Len(expected) - 1) = expected

\* C23, amended: a key with equal Objects on the two sides is rendered as an
\* unmarked "key": { ... } block holding the unchanged lines of the members;
\* a key with equal Arrays is not walked: it is one unchanged line with the
\* compact JSON text of the array.
C23_EqualObjectsAreBlocks ==
  Compared =>
    \A k \in EqualKeys(Left, Right) :
      IsComposite(Member(Left, k)) =>
        \E i \in KeyLines(DiffLines(result.value.diff), k) :
          /\ KeyLines(DiffLines(result.value.diff), k) = {i}
          /\ LinesAt(DiffLines(result.value.diff), i, UnchangedLines(k, Member(Left, k), 0))

\* {"a":[1,null]} against itself: the one line   "a": [1,null]
C23_Witness ==
  /\ Compared
  /\ Left = Obj(<<<<"a">>>>, <<Arr(<<Num(1), Null>>)>>)
  /\ Right = Left
  /\ <<"a">> \in EqualKeys(Left, Right)
  /\ DiffLines(result.value.diff)
       = <<<<" ", " ", QUOTE, "a", QUOTE, ":", " ", "[", "1", ",", "n", "u", "l", "l", "]">>>>

\* the line that closes the block opened at line i: the next `  }`
BlockEnd(lines, i) ==
  IF \E j \in (i + 1)..Len(lines) : lines[j] = BlockClose(0)
  THEN CHOOSE j \in (i + 1)..Len(lines) :
         lines[j] = BlockClose(0) /\ \A m \in (i + 1)..(j - 1) : lines[m] # BlockClose(0)
  ELSE 0

\* the key is rendered as one block whose opening and closing lines are unmarked
HasBlock(lines, key) ==
  \E i \in KeyLines(lines, key) :
    /\ KeyLines(lines, key) = {i}
    /\ lines[i] = BlockOpen(0, key)
    /\ BlockEnd(lines, i) > i

\* inside the block opened at line i, a line opens an entry with the marker
\* for the array index q
HasInnerEntry(lines, i, marker, q) ==
  \E m \in (i + 1)..(BlockEnd(lines, i) - 1) :
    MatchesAt(lines[m], 1, <<" ", " ">> \o marker \o <<QUOTE>> \o NatToString(q)
                           \o <<QUOTE, ":", " ">>)

HasMarkedEntry(lines, i, q) ==
  HasInnerEntry(lines, i, <<"+", " ">>, q) \/ HasInnerEntry(lines, i, <<"-", " ">>, q)

\* b is the array a with one element put in at index p
IsInsertionAt(a, b, p) ==
  /\ Len(b) = Len(a) + 1
  /\ p < Len(b)
  /\ SubSeq(b, 1, p) = SubSeq(a, 1, p)
  /\ SubSeq(b, p + 2, Len(b)) = SubSeq(a, p + 1, Len(a))

\* the keys whose unequal values are both composite
WalkedKeys(v1, v2) ==
  {k \in UnequalKeys(v1, v2) : IsComposite(Member(v1, k)) /\ IsComposite(Member(v2, k))}

StructurallyEqual(v1, v2) == KeySorted(v1) = KeySorted(v2)

\* C29: hasDifferences is false only if the two documents are structurally
\* equal, whatever the kind of their roots.
C29_NoDifferencesOnlyIfEqual ==
  Compared => (~result.value.hasDifferences => StructurallyEqual(Left, Right))

(***************************************************************************)
(* Properties of the schema keywords                                       *)
(***************************************************************************)
\* the schema node declares a type, and the kind of the data is another one
DeclaresOtherType(data, schema) ==
  /\ IsPlainObject(schema)
  /\ HasOwn(schema, KeyType)
  /\ Member(schema, KeyType).kind = "string"
  /\ Len(Member(schema, KeyType).str) > 0
  /\ Member(schema, KeyType).str # ActualType(data)

\* the type error of the node at the path
TypeErrorAt(path, data, schema) ==
  path \o MsgExpectedType \o Member(schema, KeyType).str \o MsgGot \o ActualType(data)

\* the errors recorded for the node at the path itself
ErrorsOfNode(errors, path) ==
  {i \in 1..Len(errors) : MatchesAt(errors[i], 1, path \o <<":", " ">>)}

ItemPath(i) == <<"[">> \o NatToString(i - 1) \o <<"]">>

\* the type check of the root passes or is not made
RootTypeHolds == IsPlainObject(Schema) /\ ~DeclaresOtherType(Data, Schema)

C26_DeclaredProperties ==
  (/\ SchemaChecked /\ BothParse
   /\ IsPlainObject(Data) /\ RootTypeHolds
   /\ IsPlainObject(Member(Schema, KeyProperties))
   /\ Member(Schema, KeyRequired).kind = "undefined" \/ IsArray(Member(Schema, KeyRequired)))
  => \A i \in 1..Len(Member(Schema, KeyProperties).keys) :
       LET key == Member(Schema, KeyProperties).keys[i]
           sub == Member(Schema, KeyProperties).items[i]
       IN IF HasOwn(Data, key)
          THEN /\ CountOf(result.value.errors, key \o MsgRequiredMissing) = 0
               /\ DeclaresOtherType(Member(Data, key), sub) =>
                    CountOf(result.value.errors, TypeErrorAt(key, Member(Data, key), sub)) = 1
          ELSE CountOf(result.value.errors, key \o MsgRequiredMissing)
                 = (IF IsTruthy(Member(sub, KeyRequired)) THEN 1 ELSE 0)

\* the data is structurally equal to one of the listed values
IsListed(data, enum) == \E j \in 1..Len(enum.items) : StructurallyEqual(enum.items[j], data)

\* C27: a node with an `enum` list records the enum error if and only if the
\* data is not structurally equal to any listed value, for arrays and objects
\* as for scalars.
C27_EnumIsStructural ==
  (/\ SchemaChecked /\ BothParse /\ RootTypeHolds
   /\ IsArray(Member(Schema, KeyEnum))
   /\ IsPlainObject(Data) =>
        /\ Member(Schema, KeyProperties).kind = "undefined"
        /\ Member(Schema, KeyRequired).kind = "undefined" \/ IsArray(Member(Schema, KeyRequired)))
  => (CountOf(result.value.errors, MsgOneOf \o JSONStringify(Member(Schema, KeyEnum), 0)) > 0
        <=> ~IsListed(Data, Member(Schema, KeyEnum)))

(***************************************************************************)
(* Properties of the App component                                         *)
(***************************************************************************)
\* after the step, output, stats and error are what processJSON sets for p
ShowsAfter(p) == output' = p.output /\ stats' = p.stats /\ error' = p.error

\* after the step, output, stats and error are those of the input held then,
\* processed with the given options
InputProcessedAfter(opts) ==
  \E reportsPosition \in BOOLEAN :
    ShowsAfter(Processed(process(input', opts, validate(input', reportsPosition))))

\* a step in which the pending handleAiFix call completes
AiFixCompletes == aiFix.pending /\ ~aiFix'.pending

\* C28: when handleAiFix completes, output, stats and error are those of the
\* processing of the text it has put in input, the fixed text, with the
\* options of the click or the current ones.
C28_FixedTextIsProcessed ==
  [][(AiFixCompletes /\ Len(trim(input')) > 0)
       => (InputProcessedAfter(options') \/ InputProcessedAfter(aiFix.options))]_vars

\* C30: activeTool is 'format' in every state the user can reach: the
\* handlers that set another tool belong to buttons of views that are drawn
\* only when activeTool already has that value.
C30_ActiveToolIsFormat == activeTool = "format"

\* a valid input has been formatted: the button of handleXMLConvert would be
\* enabled, but the view that holds it is not drawn
C30_Witness ==
  /\ activeTool = "format"
  /\ input = <<"[", "1", "]">>
  /\ output = JSONStringify(Arr(<<Num(1)>>), 2)
  /\ Len(error) = 0
  /\ ~Disabled("convertXML")
  /\ ~Rendered("convertXML")

====
